---- MODULE Spec2Model ----
(***************************************************************************)
(* Authentication session lifecycle of the Swuva buyer app: the persisted  *)
(* zustand auth store (src/stores/auth.ts), the TanStack Query auth hooks  *)
(* (src/features/auth/hooks/useAuth.ts), the axios client interceptors     *)
(* (lib/api), the splash navigation effect (app/splash.tsx) and the        *)
(* screens that start the auth mutations.                                  *)
(*                                                                         *)
(* One step of the model is one macrotask of the JavaScript event loop: a  *)
(* handler runs from the event that wakes it to its next await.            *)
(***************************************************************************)
EXTENDS Integers, Sequences, FiniteSets, TLC

\* ------------------------------------------------------------------ bounds
\* number of mutations / queries that may be in flight together
MaxFlows == 1

\* ------------------------------------------------------------- value sets
\* JavaScript null / undefined
Null == "null"
\* users the backend may answer with (the id stands for {id,email,name,role})
Users == {"u1", "u2"}
\* bearer tokens the backend may issue
Tokens == {"t1", "t2"}
\* 2xx response bodies <<user, session.token>>: a session of either user, a
\* user with an empty token, a user without session (the mock backend's
\* sign-up), a body without user, an empty body
Responses == {<<"u1", "t1">>, <<"u2", "t2">>, <<"u1", "">>, <<"u2", Null>>,
              <<Null, "t2">>, <<Null, Null>>}
\* values of the store's rememberedEmail field
Emails == {"e1"}

\* HTTP outcome of a failed request; NoResponse is a timeout / network error
NoResponse == 0
\* the failures the backend and the network produce: no response at all, a
\* 401 whose body carries a code, a 500 whose body carries none
RawErrors == {[status |-> NoResponse, code |-> Null],
              [status |-> 401, code |-> "E_CODE"],
              [status |-> 500, code |-> Null]}

\* JavaScript truthiness of a string-or-null value
Truthy(v) == v # Null /\ v # ""

\* ------------------------------------------------------------- operations
SignUp == "signUp"
SignIn == "signIn"
VerifyOTP == "verifyEmailOTP"
SignInWithOTP == "signInWithOTP"
SignOut == "signOut"
GetSession == "getSession"
RequestOTP == "requestOTP"

\* hooks whose onSuccess writes the token and then calls setAuth
SetAuthKinds == {SignIn, VerifyOTP, SignInWithOTP}
\* the four session-creating operations of the orchestration layer
AuthKinds == {SignUp} \cup SetAuthKinds
Kinds == AuthKinds \cup {SignOut, GetSession, RequestOTP}

\* ------------------------------------------------------------------ routes
Routes == {"splash", "onboarding", "login", "register", "verify-otp", "tabs"}

Group(r) ==
  CASE r \in {"login", "register", "verify-otp"} -> "auth"
    [] r = "tabs" -> "tabs"
    [] OTHER -> "public"

VARIABLES
  user, token, isAuthenticated, isHydrated, rememberedEmail,  \* zustand store
  disk,             \* AsyncStorage item 'swuva-auth-storage'
  loadState,        \* startup load: "loading", "ok" or "error"
  secureToken,      \* SecureStore item 'swuva-auth-token'
  route,            \* focused route
  isAnimationComplete, hasNavigated, splashRead, \* Splash component state
  onboardingCompleted, \* AsyncStorage item 'swuva-onboarding-completed'
  flows,            \* mutations / queries, one record per slot
  settled,          \* history: the flow the last step settled
  pendingChange     \* history: (isAuthenticated, group) changed after
                    \* hydration and no guard decision was made since

\* login screen (app/(auth)/login)
VARIABLES
  lsEntry,          \* AsyncStorage item 'swuva-remembered-email'
  rememberMeRef,    \* rememberMeRef.current, the state of the check box
  emailField,       \* the email input
  storageQueue,     \* AsyncStorage calls on that item that have not settled
  signInSent,       \* handleLogin has called signIn.mutate, no answer yet
  signInFlight,     \* sign-in requests without an answer
  unticked,         \* history: the user's last toggle unticked the box
  lastRemove        \* history: how the last settled removal of a toggle ended

loginVars == <<lsEntry, rememberMeRef, emailField, storageQueue, signInSent,
               signInFlight, unticked, lastRemove>>

\* verify-otp screen (app/(auth)/verify-otp)
VARIABLES
  countdown,        \* seconds left before a resend is allowed
  canResend,
  intervals,        \* setInterval timers that are active
  timerRef,         \* timerRef.current is an active interval
  ticks,            \* history: ticks since the countdown was last started
  otpLen,           \* otp.length
  otpError,         \* an error message is displayed
  autoTimer,        \* the 300 ms auto-verify timeout is armed
  verifyInFlight,   \* verification requests without an answer
  verifyLatest,     \* verifyOTP.isPending: the last mutate() has no answer
  shownPending,     \* verifyOTP.isPending as of the last render
  resendInFlight,   \* resend requests without an answer
  resendLatest,     \* requestOTP.isPending
  shownResending,   \* requestOTP.isPending as of the last render
  otpEvent          \* history: what the last step of the screen was

countdownVars == <<countdown, canResend, intervals, timerRef, ticks>>
renderVars == <<shownPending, shownResending, autoTimer>>
otpVars == <<countdown, canResend, intervals, timerRef, ticks, otpLen,
             otpError, autoTimer, verifyInFlight, verifyLatest, shownPending,
             resendInFlight, resendLatest, shownResending, otpEvent>>

\* OTP input component (components/auth/OTPInput)
VARIABLES
  otpValue,         \* the value prop: the characters of the code
  slotEvent         \* history: the last event of the input and its slot

slotVars == <<otpValue, slotEvent>>

\* forgot-password screen (app/(auth)/forgot-password)
VARIABLES
  fpEmail,          \* the email input
  fpError,          \* the validation error displayed
  fpTouched,        \* the email input was blurred once
  fpInFlight,       \* the email of the request without an answer
  fpRoute,          \* the screen on top of the stack
  fpParam,          \* the email param of the reset-password screen
  fpAlert,          \* the alert displayed
  fpSettled         \* history: the answer the last step handled

forgotVars == <<fpEmail, fpError, fpTouched, fpInFlight, fpRoute, fpParam,
                fpAlert, fpSettled>>

\* register screen (app/(auth)/register)
VARIABLES
  regEmail,         \* the email input
  regOther,         \* name, passwords and terms pass validateForm
  regCalls,         \* sign-up and verification-OTP requests without an answer
  regParam,         \* the email param of the verify-otp screen pushed
  regShown,         \* the error or alert the screen displays
  regEvent          \* history: the callback the last step ran

registerVars == <<regEmail, regOther, regCalls, regParam, regShown, regEvent>>

\* the auth service against the mock backend (__tests__/mocks)
VARIABLES
  mkInput,          \* the credentials the next call is made with
  mkSignIn,         \* history: how the last authService.signIn ended
  mkSession,        \* history: how the last authService.getSession ended
  mkOther           \* history: how the last signUp or signOut ended

mockVars == <<mkInput, mkSignIn, mkSession, mkOther>>

\* debounce (lib/utils)
VARIABLES
  dbDelay,          \* the delay argument of debounce(fn, delay)
  dbNow,            \* the clock, in milliseconds
  dbTimers,         \* the timeouts that are set and have not fired
  timeoutId,        \* the closure's timeoutId: the timeout set last
  dbLast,           \* history: time and arguments of the last call
  dbFired,          \* history: invocations of fn since the last call
  dbEvent           \* history: what the last step was

debounceVars == <<dbDelay, dbNow, dbTimers, timeoutId, dbLast, dbFired,
                  dbEvent>>

\* process restarts
VARIABLES
  before            \* history: what the store held when the process ended

\* the state of the screens that are not part of the session life cycle
auxVars == <<loginVars, otpVars, slotVars, forgotVars, registerVars,
             mockVars, debounceVars, before>>
\* what the steps of one screen leave alone of the other screens
notLogin == <<otpVars, slotVars, forgotVars, registerVars, mockVars,
              debounceVars, before>>
notOtp == <<loginVars, slotVars, forgotVars, registerVars, mockVars,
            debounceVars, before>>
notSlot == <<loginVars, otpVars, forgotVars, registerVars, mockVars,
             debounceVars, before>>
notForgot == <<loginVars, otpVars, slotVars, registerVars, mockVars,
               debounceVars, before>>
notRegister == <<loginVars, otpVars, slotVars, forgotVars, mockVars,
                 debounceVars, before>>
notMock == <<loginVars, otpVars, slotVars, forgotVars, registerVars,
             debounceVars, before>>
notDebounce == <<loginVars, otpVars, slotVars, forgotVars, registerVars,
                 mockVars, before>>
notPersist == <<loginVars, otpVars, slotVars, forgotVars, registerVars,
                mockVars, debounceVars>>

storeVars == <<user, token, isAuthenticated, isHydrated, rememberedEmail>>
splashVars == <<isAnimationComplete, hasNavigated, splashRead>>
vars == <<user, token, isAuthenticated, isHydrated, rememberedEmail, disk,
          loadState, secureToken, route, isAnimationComplete, hasNavigated,
          splashRead, onboardingCompleted, flows, settled, pendingChange,
          auxVars>>

mainVars == <<user, token, isAuthenticated, isHydrated, rememberedEmail, disk,
              loadState, secureToken, route, isAnimationComplete,
              hasNavigated, splashRead, onboardingCompleted, flows, settled,
              pendingChange>>

FlowIds == 1..MaxFlows

\* ----------------------------------------------------------- api errors
\* the response of a request that has not failed
NoRaw == [status |-> 200, code |-> Null]
NoError == [status |-> 200, code |-> "NONE"]
\* what a throwing SecureStore call rejects with (not an ApiError)
StorageError == [status |-> 0, code |-> "STORAGE"]

\* response interceptor, error branch: the ApiError built from the failure
Normalize(raw) ==
  [status |-> IF raw.status = NoResponse THEN 500 ELSE raw.status,
   code |-> IF raw.code = Null THEN "UNKNOWN_ERROR" ELSE raw.code]

InterceptorClearsAll(status) == TRUE
\* response interceptor: the statuses on which the stored token is deleted
InterceptorClears(status) == status = 401

\* ------------------------------------------------------------ flow slots
\* a mutation or query in flight: the hook, the await it is suspended at,
\* the response it is handling
IdleFlow ==
  [kind |-> "none", pc |-> "idle", rUser |-> Null, rToken |-> Null,
   raw |-> NoRaw, phase |-> "none", threw |-> FALSE, authed |-> FALSE]

\* history: what the step just taken settled, if it settled a flow
NoEvent ==
  [kind |-> "none", outcome |-> "none", rUser |-> Null, rToken |-> Null,
   raw |-> NoRaw, err |-> NoError, wrote |-> FALSE, authed |-> FALSE,
   threw |-> FALSE, told |-> FALSE]

Free(f) == flows[f].pc = "idle"
\* a new mutation takes the lowest free slot
LowestFree(f) == Free(f) /\ \A g \in FlowIds : g < f => ~Free(g)

\* ------------------------------------------------------- persisted store
\* a mutated partialize that leaves the remembered email out
PartializeNoEmail(u, t, a, e) ==
  [present |-> TRUE, user |-> u, token |-> t, isAuthenticated |-> a,
   rememberedEmail |-> Null]

\* partialize: the fields written to durable storage
Partialize(u, t, a, e) ==
  [present |-> TRUE, user |-> u, token |-> t, isAuthenticated |-> a,
   rememberedEmail |-> e]

NoDisk ==
  [present |-> FALSE, user |-> Null, token |-> Null,
   isAuthenticated |-> FALSE, rememberedEmail |-> Null]

\* history: the guard owes a decision after a change of (isAuthenticated,
\* group) made once hydrated by a step that is not the guard's own redirect
Track ==
  pendingChange' =
    IF isHydrated /\ (isAuthenticated' # isAuthenticated
                      \/ Group(route') # Group(route))
    THEN TRUE ELSE pendingChange

\* a mutated setAuth that keeps the user of the previous session
SetAuthKeepsUser(u, t) ==
  /\ token' = t
  /\ isAuthenticated' = TRUE
  /\ UNCHANGED <<user, isHydrated, rememberedEmail>>
  /\ disk' = Partialize(user, t, TRUE, rememberedEmail)

\* set({user, token, isAuthenticated: true}) and the persist write it causes
SetAuth(u, t) ==
  /\ user' = u
  /\ token' = t
  /\ isAuthenticated' = TRUE
  /\ UNCHANGED <<isHydrated, rememberedEmail>>
  /\ disk' = Partialize(u, t, TRUE, rememberedEmail)

\* a mutated logout that forgets the remembered email as well
LogoutClearsEmail ==
  /\ user' = Null
  /\ token' = Null
  /\ isAuthenticated' = FALSE
  /\ rememberedEmail' = Null
  /\ UNCHANGED isHydrated
  /\ disk' = Partialize(Null, Null, FALSE, Null)

\* set({user: null, token: null, isAuthenticated: false})
Logout ==
  /\ user' = Null
  /\ token' = Null
  /\ isAuthenticated' = FALSE
  /\ UNCHANGED <<isHydrated, rememberedEmail>>
  /\ disk' = Partialize(Null, Null, FALSE, rememberedEmail)

\* the login screen before it is mounted: nothing stored, the component's
\* initial state
LoginIdle ==
  /\ lsEntry = Null
  /\ rememberMeRef = FALSE
  /\ emailField = ""
  /\ storageQueue = <<>>
  /\ signInSent = FALSE
  /\ signInFlight = 0
  /\ unticked = FALSE
  /\ lastRemove = "none"

\* length of the one-time code
OTP_LENGTH == 6
\* seconds between two resends
RESEND_COOLDOWN == 60

\* the verify-otp screen before it is mounted
OtpIdle ==
  /\ countdown = RESEND_COOLDOWN
  /\ canResend = FALSE
  /\ intervals = 0
  /\ timerRef = FALSE
  /\ ticks = 0
  /\ otpLen = 0
  /\ otpError = FALSE
  /\ autoTimer = FALSE
  /\ verifyInFlight = 0
  /\ verifyLatest = FALSE
  /\ shownPending = FALSE
  /\ resendInFlight = 0
  /\ resendLatest = FALSE
  /\ shownResending = FALSE
  /\ otpEvent = "none"

\* no event of the OTP input yet
NoSlotEvent == [kind |-> "none", slot |-> 0]

\* the OTP input before anything is typed
SlotIdle ==
  /\ otpValue = <<>>
  /\ slotEvent = NoSlotEvent

\* an empty string, as a sequence of characters
Empty == <<>>
\* no answer handled by the forgot-password screen yet
NoAnswer == [kind |-> "none", email |-> Empty, told |-> FALSE]
\* no forgot-password request in flight
NoRequest == [email |-> Empty, live |-> FALSE]

\* the forgot-password screen before it is mounted
ForgotIdle ==
  /\ fpEmail = Empty
  /\ fpError = "none"
  /\ fpTouched = FALSE
  /\ fpInFlight = NoRequest
  /\ fpRoute = "login"
  /\ fpParam = Empty
  /\ fpAlert = "none"
  /\ fpSettled = NoAnswer

\* no callback of the register screen ran in the last step
NoRegEvent == [kind |-> "none", email |-> <<>>, raw |-> <<>>]

\* the register screen before it is mounted
RegisterIdle ==
  /\ regEmail = <<>>
  /\ regOther = FALSE
  /\ regCalls = <<>>
  /\ regParam = <<>>
  /\ regShown = "none"
  /\ regEvent = NoRegEvent

\* no call of the auth service was made
NoResult ==
  [call |-> "none", email |-> "", password |-> "", outcome |-> "none",
   status |-> 0, user |-> Null, token |-> Null]

\* no credentials chosen
NoInput == [email |-> "", password |-> ""]

\* the mock backend before any test calls the service
MockIdle ==
  /\ mkInput = NoInput
  /\ mkSignIn = NoResult
  /\ mkSession = NoResult
  /\ mkOther = NoResult

\* let timeoutId: declared, never assigned
NoTimer == [due |-> -1, args |-> "none"]
\* the debounced function was never called
NoCall == [any |-> FALSE, time |-> 0, args |-> "none"]
NoDbEvent == [kind |-> "none", args |-> "none"]

\* no debounced function was created
DebounceIdle ==
  /\ dbDelay = 1
  /\ dbNow = 0
  /\ dbTimers = {}
  /\ timeoutId = NoTimer
  /\ dbLast = NoCall
  /\ dbFired = 0
  /\ dbEvent = NoDbEvent

\* the first lifetime of the process: nothing ended before it
NoLifetime ==
  [taken |-> FALSE, hydrated |-> FALSE, synced |-> FALSE, user |-> Null,
   token |-> Null, isAuthenticated |-> FALSE, rememberedEmail |-> Null]

Init ==
  /\ LoginIdle
  /\ OtpIdle
  /\ SlotIdle
  /\ ForgotIdle
  /\ RegisterIdle
  /\ MockIdle
  /\ DebounceIdle
  /\ before = NoLifetime
  /\ user = Null
  /\ token = Null
  /\ isAuthenticated = FALSE
  /\ isHydrated = FALSE
  /\ rememberedEmail = Null
  /\ disk \in {NoDisk,
               Partialize(Null, Null, FALSE, Null),
               Partialize("u1", "t1", TRUE, Null)}
  /\ loadState = "loading"
  /\ secureToken = IF disk.isAuthenticated THEN disk.token ELSE Null
  /\ route = "splash"
  /\ isAnimationComplete = FALSE
  /\ hasNavigated = FALSE
  /\ splashRead = FALSE
  /\ onboardingCompleted \in BOOLEAN
  /\ flows = [f \in FlowIds |-> IdleFlow]
  /\ settled = NoEvent
  /\ pendingChange = FALSE


\* ------------------------------------------------ startup load (hydration)
\* a mutated callback that forgets the flag when the load failed
RehydrateCallbackSkipsOnError(error) == ~error
\* onRehydrateStorage's callback: the value it gives isHydrated
RehydrateCallback(error) == TRUE

\* zustand persist: the stored item, when there is one, is merged over the
\* in-memory state; onRehydrateStorage's callback then sets isHydrated, and
\* that setState persists the partialized state
HydrateOk ==
  /\ loadState = "loading"
  /\ loadState' = "ok"
  /\ user' = IF disk.present THEN disk.user ELSE user
  /\ token' = IF disk.present THEN disk.token ELSE token
  /\ isAuthenticated' = IF disk.present THEN disk.isAuthenticated
                        ELSE isAuthenticated
  /\ rememberedEmail' = IF disk.present THEN disk.rememberedEmail
                        ELSE rememberedEmail
  /\ isHydrated' = RehydrateCallback(FALSE)
  /\ disk' = Partialize(user', token', isAuthenticated', rememberedEmail')
  /\ UNCHANGED <<secureToken, route, splashVars, onboardingCompleted, flows>>
  /\ settled' = NoEvent
  /\ Track
  /\ UNCHANGED auxVars

\* the durable-storage read fails: the in-memory state is kept, the callback
\* runs with the error; the persist write of its setState may fail as well
HydrateFail ==
  /\ loadState = "loading"
  /\ loadState' = "error"
  /\ UNCHANGED <<user, token, isAuthenticated, rememberedEmail>>
  /\ isHydrated' = RehydrateCallback(TRUE)
  /\ \/ disk' = disk
     \/ disk' = Partialize(user, token, isAuthenticated, rememberedEmail)
  /\ UNCHANGED <<secureToken, route, splashVars, onboardingCompleted, flows>>
  /\ settled' = NoEvent
  /\ Track
  /\ UNCHANGED auxVars

\* ------------------------------------------------------------ splash screen
handleAnimationComplete ==
  /\ route = "splash"
  /\ ~isAnimationComplete
  /\ isAnimationComplete' = TRUE
  /\ UNCHANGED <<storeVars, disk, loadState, secureToken, route, hasNavigated,
                 splashRead, onboardingCompleted, flows>>
  /\ settled' = NoEvent
  /\ Track
  /\ UNCHANGED auxVars

\* a mutated guard that does not wait for hydration
SplashGuardIgnoresHydration == isAnimationComplete /\ ~hasNavigated
\* the early return of the splash effect, negated
SplashGuard == isAnimationComplete /\ isHydrated /\ ~hasNavigated

\* the splash effect: the guard's one redirect decision.  navigate() runs
\* to router.replace('/(tabs)') or to its await of AsyncStorage.getItem
SplashEffect ==
  /\ route = "splash"
  /\ SplashGuard
  /\ hasNavigated' = TRUE
  /\ IF isAuthenticated
     THEN route' = "tabs" /\ splashRead' = splashRead
     ELSE route' = route /\ splashRead' = TRUE
  /\ pendingChange' = FALSE
  /\ UNCHANGED <<storeVars, disk, loadState, secureToken, isAnimationComplete,
                 onboardingCompleted, flows>>
  /\ settled' = NoEvent
  /\ UNCHANGED auxVars

\* navigate() after its await: login when the onboarding flag reads 'true',
\* onboarding when it does not or when the read throws
SplashReadSettle(ok) ==
  /\ route = "splash"
  /\ splashRead
  /\ splashRead' = FALSE
  /\ route' = IF ok /\ onboardingCompleted THEN "login" ELSE "onboarding"
  /\ UNCHANGED <<storeVars, disk, loadState, secureToken, isAnimationComplete,
                 hasNavigated, onboardingCompleted, flows, pendingChange>>
  /\ settled' = NoEvent
  /\ UNCHANGED auxVars

\* ------------------------------------------------------- user navigation
\* OnboardingScreen.completeOnboarding: the flag write is best effort
completeOnboarding(ok) ==
  /\ route = "onboarding"
  /\ onboardingCompleted' = (ok \/ onboardingCompleted)
  /\ route' = "login"
  /\ UNCHANGED <<storeVars, disk, loadState, secureToken, splashVars, flows>>
  /\ settled' = NoEvent
  /\ Track
  /\ UNCHANGED auxVars

\* the links between the login and the register screen, and the back button
\* of the verify-otp screen
UserNavigate ==
  /\ \/ route = "login" /\ route' = "register"
     \/ route = "register" /\ route' = "login"
     \/ route = "verify-otp" /\ route' = "register"
  /\ UNCHANGED <<storeVars, disk, loadState, secureToken, splashVars,
                 onboardingCompleted, flows>>
  /\ settled' = NoEvent
  /\ Track
  /\ UNCHANGED auxVars

\* a mutated setRememberedEmail whose set() replaces the state and so
\* loses isHydrated
setRememberedEmailResets(e) ==
  /\ route # "splash"
  /\ rememberedEmail # e
  /\ rememberedEmail' = e
  /\ isHydrated' = FALSE
  /\ disk' = Partialize(user, token, isAuthenticated, e)
  /\ UNCHANGED <<user, token, isAuthenticated, loadState, secureToken, route,
                 splashVars, onboardingCompleted, flows>>
  /\ settled' = NoEvent
  /\ Track
  /\ UNCHANGED auxVars

\* store action setRememberedEmail
setRememberedEmail(e) ==
  /\ route # "splash"
  /\ rememberedEmail # e
  /\ rememberedEmail' = e
  /\ disk' = Partialize(user, token, isAuthenticated, e)
  /\ UNCHANGED <<user, token, isAuthenticated, isHydrated, loadState,
                 secureToken, route, splashVars, onboardingCompleted, flows>>
  /\ settled' = NoEvent
  /\ Track
  /\ UNCHANGED auxVars

\* ------------------------------------------- mutations and the session query
\* the screen whose component passes callbacks to the hook's mutate()
ScreenOf(k) ==
  CASE k = SignIn -> "login"
    [] k = SignUp -> "register"
    [] k = RequestOTP -> "register"
    [] k = VerifyOTP -> "verify-otp"
    [] OTHER -> "none"

\* where a hook can be started: on the screen that calls it; the hooks no
\* screen of the repository calls are usable from any screen but the splash
\* screen, which mounts none of them.  The verify-otp screen starts no
\* verification while one is pending; the verification-OTP request is only
\* chained from a sign-up
CanStart(k) ==
  CASE k \in {SignIn, SignUp} -> route = ScreenOf(k)
    [] k = VerifyOTP ->
         /\ route = ScreenOf(k)
         /\ \A g \in FlowIds : flows[g].kind # VerifyOTP
    [] k = RequestOTP -> FALSE
    [] OTHER -> route # "splash"

\* mutate() / the query's fetch: the request leaves
Start(f, k) ==
  /\ LowestFree(f)
  /\ CanStart(k)
  /\ flows' = [flows EXCEPT ![f] = [IdleFlow EXCEPT !.kind = k, !.pc = "pending"]]
  /\ settled' = NoEvent
  /\ UNCHANGED <<storeVars, disk, loadState, secureToken, route, splashVars,
                 onboardingCompleted>>
  /\ Track
  /\ UNCHANGED auxVars

\* the mutation settles with event ev: the callbacks the screen passed to
\* mutate() run if the screen is still the focused route.  Login and
\* verify-otp replace the route with the tabs on success; register chains
\* the verification-OTP request on success and goes to verify-otp whatever
\* the outcome of that request
Finish(f, ev) ==
  LET told == ScreenOf(ev.kind) = route
      ok == ev.outcome = "success"
  IN
  /\ settled' = [ev EXCEPT !.told = told]
  /\ flows' = [flows EXCEPT ![f] =
       IF told /\ ok /\ ev.kind = SignUp
       THEN [IdleFlow EXCEPT !.kind = RequestOTP, !.pc = "pending"]
       ELSE IdleFlow]
  /\ route' = CASE told /\ ok /\ ev.kind \in {SignIn, VerifyOTP} -> "tabs"
                [] told /\ ev.kind = RequestOTP -> "verify-otp"
                [] OTHER -> route

\* the token setAuth is called with by the sign-in style hooks
TokenOrEmpty(t) == IF Truthy(t) THEN t ELSE ""

\* a mutated handler that authenticates the store before awaiting the write
SetAuthBeforeWriteAlways(k, u, t) == k \in SetAuthKinds /\ u # Null
\* whether onSuccess reaches setAuth without awaiting a token write
SetAuthBeforeWrite(k, u, t) == k \in SetAuthKinds /\ u # Null /\ ~Truthy(t)

\* whether onSuccess calls setAuth once the token write has resolved
SetAuthAfterWrite(k, u) == k \in SetAuthKinds /\ u # Null

\* onSuccess of useSignUp / useSignIn / useVerifyEmailOTP / useSignInWithOTP,
\* from the response to the await of SecureStore.setItemAsync, or to its end
\* when the response carries no token
AuthOnSuccess(f, u, t) ==
  LET k == flows[f].kind
      auth == SetAuthBeforeWrite(k, u, t)
  IN
  /\ IF auth THEN SetAuth(u, TokenOrEmpty(t)) ELSE UNCHANGED <<storeVars, disk>>
  /\ UNCHANGED secureToken
  /\ IF Truthy(t)
     THEN /\ flows' = [flows EXCEPT ![f] =
               [@ EXCEPT !.pc = "writing", !.rUser = u, !.rToken = t,
                         !.authed = auth]]
          /\ settled' = NoEvent
          /\ route' = route
     ELSE Finish(f, [NoEvent EXCEPT !.kind = k, !.outcome = "success",
                                    !.rUser = u, !.rToken = t,
                                    !.authed = auth])

\* select of useSession: syncs the store when the data has user and session
SessionSelect(f, u, t) ==
  LET auth == u # Null /\ t # Null IN
  /\ IF auth THEN SetAuth(u, t) ELSE UNCHANGED <<storeVars, disk>>
  /\ UNCHANGED secureToken
  /\ Finish(f, [NoEvent EXCEPT !.kind = GetSession, !.outcome = "success",
                               !.rUser = u, !.rToken = t, !.authed = auth])

\* a 2xx response arrives
RespondOk(f, u, t) ==
  /\ flows[f].pc = "pending"
  /\ CASE flows[f].kind \in AuthKinds -> AuthOnSuccess(f, u, t)
       [] flows[f].kind = GetSession -> SessionSelect(f, u, t)
       [] flows[f].kind = SignOut ->
            \* onSuccess of useSignOut awaits SecureStore.deleteItemAsync
            /\ flows' = [flows EXCEPT ![f] =
                 [@ EXCEPT !.pc = "deleting", !.phase = "onSuccess"]]
            /\ settled' = NoEvent
            /\ UNCHANGED <<storeVars, disk, secureToken, route>>
       [] OTHER ->
            /\ Finish(f, [NoEvent EXCEPT !.kind = flows[f].kind,
                                         !.outcome = "success"])
            /\ UNCHANGED <<storeVars, disk, secureToken>>
  /\ UNCHANGED <<loadState, splashVars, onboardingCompleted>>
  /\ Track
  /\ UNCHANGED auxVars

\* SecureStore.setItemAsync settles; on success the handler goes on to
\* setAuth, on failure the handler throws and the mutation fails
WriteSettle(f, ok) ==
  LET fl == flows[f]
      auth == SetAuthAfterWrite(fl.kind, fl.rUser)
      ev == [NoEvent EXCEPT !.kind = fl.kind, !.rUser = fl.rUser,
                            !.rToken = fl.rToken]
  IN
  /\ fl.pc = "writing"
  /\ IF ok
     THEN /\ secureToken' = fl.rToken
          /\ IF auth
             THEN SetAuth(fl.rUser, TokenOrEmpty(fl.rToken))
             ELSE UNCHANGED <<storeVars, disk>>
          /\ Finish(f, [ev EXCEPT !.outcome = "success", !.wrote = TRUE,
                                  !.authed = fl.authed \/ auth])
     ELSE /\ UNCHANGED <<storeVars, disk, secureToken>>
          /\ Finish(f, [ev EXCEPT !.outcome = "error", !.threw = TRUE,
                                  !.authed = fl.authed, !.err = StorageError])
  /\ UNCHANGED <<loadState, splashVars, onboardingCompleted>>
  /\ Track
  /\ UNCHANGED auxVars

\* response interceptor, error branch: on 401 the stored token is deleted
\* inside a try/catch (a throwing delete is ignored), then the normalized
\* error is rejected.  getSession's catch turns every rejection into null;
\* useSignOut's onError starts its own delete; the other hooks have no
\* onError and the mutation fails with the normalized error
RespondFail(f, raw, deleteOk) ==
  LET fl == flows[f]
      ev == [NoEvent EXCEPT !.kind = fl.kind, !.raw = raw,
                            !.err = Normalize(raw)]
  IN
  /\ fl.pc = "pending"
  /\ secureToken' = IF InterceptorClears(raw.status) /\ deleteOk
                    THEN Null ELSE secureToken
  /\ CASE fl.kind = SignOut ->
            /\ flows' = [flows EXCEPT ![f] =
                 [@ EXCEPT !.pc = "deleting", !.phase = "onError", !.raw = raw]]
            /\ settled' = NoEvent
            /\ route' = route
       [] fl.kind = GetSession -> Finish(f, [ev EXCEPT !.outcome = "success"])
       [] OTHER -> Finish(f, [ev EXCEPT !.outcome = "error"])
  /\ UNCHANGED <<storeVars, disk, loadState, splashVars, onboardingCompleted>>
  /\ Track
  /\ UNCHANGED auxVars

\* SecureStore.deleteItemAsync of useSignOut settles.  Resolved: logout()
\* runs and the handler ends.  Rejected inside onSuccess: the mutation
\* fails and its onError runs, which awaits the delete again.  Rejected
\* inside onError: the handler throws before logout()
DeleteSettle(f, ok) ==
  LET fl == flows[f]
      ev == [NoEvent EXCEPT !.kind = SignOut, !.raw = fl.raw,
                            !.threw = fl.threw,
                            !.err = IF fl.threw THEN StorageError
                                    ELSE Normalize(fl.raw),
                            !.outcome = "error"]
  IN
  /\ fl.pc = "deleting"
  /\ IF ok
     THEN /\ secureToken' = Null
          /\ Logout
          /\ Finish(f, [ev EXCEPT !.wrote = TRUE, !.authed = TRUE,
                          !.outcome = IF fl.phase = "onSuccess"
                                      THEN "success" ELSE "error",
                          !.err = IF fl.phase = "onSuccess" THEN NoError ELSE @])
     ELSE /\ UNCHANGED <<storeVars, disk, secureToken>>
          /\ IF fl.phase = "onSuccess"
             THEN /\ flows' = [flows EXCEPT ![f] =
                       [@ EXCEPT !.phase = "onError", !.threw = TRUE]]
                  /\ settled' = NoEvent
                  /\ route' = route
             ELSE Finish(f, [ev EXCEPT !.threw = TRUE, !.err = StorageError])
  /\ UNCHANGED <<loadState, splashVars, onboardingCompleted>>
  /\ Track
  /\ UNCHANGED auxVars

\* --------------------------------------------------------- specification
Next ==
  \/ HydrateOk
  \/ HydrateFail
  \/ handleAnimationComplete
  \/ SplashEffect
  \/ \E ok \in BOOLEAN : SplashReadSettle(ok)
  \/ \E ok \in BOOLEAN : completeOnboarding(ok)
  \/ UserNavigate
  \/ \E e \in Emails \cup {Null} : setRememberedEmail(e)
  \/ \E f \in FlowIds, k \in Kinds : Start(f, k)
  \/ \E f \in FlowIds, r \in Responses : RespondOk(f, r[1], r[2])
  \/ \E f \in FlowIds, ok \in BOOLEAN : WriteSettle(f, ok)
  \/ \E f \in FlowIds, raw \in RawErrors, ok \in BOOLEAN : RespondFail(f, raw, ok)
  \/ \E f \in FlowIds, ok \in BOOLEAN : DeleteSettle(f, ok)

Spec == Init /\ [][Next]_vars

\* the startup load settles: its promise resolves or rejects
FairSpec == Spec /\ WF_vars(HydrateOk \/ HydrateFail)

TypeOK ==
  /\ user \in {Null} \cup Users
  /\ token \in {Null, ""} \cup Tokens
  /\ isAuthenticated \in BOOLEAN
  /\ isHydrated \in BOOLEAN
  /\ secureToken \in {Null} \cup Tokens
  /\ route \in Routes
  /\ loadState \in {"loading", "ok", "error"}

\* ------------------------------------------------------------- properties
\* the call behind a settled event failed at the HTTP layer
Failed(ev) == ev.raw \in RawErrors

LoggedOut == user = Null /\ token = Null /\ ~isAuthenticated

\* no mutation or query is in flight and the splash navigation is not
\* suspended at its read
Quiescent == (\A f \in FlowIds : flows[f].pc = "idle") /\ ~splashRead

\* a run of the navigation guard is due or under way
GuardPending == route = "splash" /\ (SplashGuard \/ splashRead)

\* C1: in every reachable state, isAuthenticated = true implies a non-empty
\* token and a non-null user
C1_AuthenticatedHasTokenAndUser ==
  isAuthenticated => (Truthy(token) /\ user # Null)

\* C2: a sign-out that has ended, whatever the remote outcome, leaves the
\* secure-store token removed and the session store logged out
C2_SignOutFailOpen ==
  settled.kind = SignOut => (secureToken = Null /\ LoggedOut)

\* C3 as stated: a failed sign-up, sign-in, verify-OTP or OTP sign-in, for
\* every failure outcome, writes nothing to the secure store or the session
\* store and hands the screen the normalized error
C3_NoWriteOnAnyFailure ==
  [][(settled'.kind \in AuthKinds /\ Failed(settled'))
       => /\ secureToken' = secureToken
          /\ user' = user /\ token' = token
          /\ isAuthenticated' = isAuthenticated
          /\ settled'.outcome = "error"
          /\ settled'.err = Normalize(settled'.raw)]_vars

\* C3 amended: a failed sign-up, sign-in, verify-OTP or OTP sign-in leaves
\* the session store untouched and hands the screen the normalized error;
\* the secure-store token is kept for every failure but HTTP 401, on which
\* the response interceptor deletes it (or keeps it when the delete throws)
C3_NoWriteOnFailureBut401 ==
  [][(settled'.kind \in AuthKinds /\ Failed(settled'))
       => /\ IF settled'.raw.status = 401
             THEN secureToken' \in {secureToken, Null}
             ELSE secureToken' = secureToken
          /\ user' = user /\ token' = token
          /\ isAuthenticated' = isAuthenticated
          /\ disk' = disk
          /\ settled'.outcome = "error"
          /\ settled'.err = Normalize(settled'.raw)]_vars

\* a sign-in failed with a non-401 error on the login screen while a token
\* was stored, and the token is still there
C3_Witness ==
  /\ settled.kind = SignIn /\ Failed(settled) /\ settled.raw.status # 401
  /\ settled.told
  /\ secureToken # Null

\* C4: when the secure-store call throws while a successful sign-in,
\* verify-OTP, OTP sign-in or sign-out response is handled, the session
\* store is updated all the same and the flow reports success
C4_StorageFailureNeverBlocks ==
  (settled.kind \in SetAuthKinds \cup {SignOut} /\ settled.threw
     /\ ~Failed(settled))
    => /\ settled.outcome = "success"
       /\ IF settled.kind = SignOut
          THEN LoggedOut
          ELSE settled.rUser # Null
                 => (isAuthenticated /\ user = settled.rUser)

\* C5: a successful sign-up, sign-in, verify-OTP or OTP sign-in whose
\* response carries a user and a token ends with setAuth called and the
\* store authenticated with that user and token
C5_SuccessCreatesSession ==
  (settled.kind \in AuthKinds /\ settled.outcome = "success"
     /\ settled.rUser # Null /\ Truthy(settled.rToken))
    => /\ settled.authed
       /\ isAuthenticated /\ user = settled.rUser /\ token = settled.rToken

\* C6: for a sign-in, verify-OTP or OTP sign-in response that carries a
\* token, setAuth is never called before the token write has completed
C6_TokenWriteBeforeSetAuth ==
  /\ \A f \in FlowIds :
       (flows[f].kind \in SetAuthKinds /\ flows[f].pc = "writing")
         => ~flows[f].authed
  /\ (settled.kind \in SetAuthKinds /\ settled.authed
        /\ Truthy(settled.rToken))
       => (settled.wrote /\ secureToken = settled.rToken)

\* a sign-in settled with its token written and the store authenticated
C6_Witness ==
  /\ settled.kind = SignIn /\ settled.authed /\ settled.wrote
  /\ Truthy(settled.rToken)
  /\ token = settled.rToken /\ secureToken = settled.rToken

\* C7: while isHydrated = false no navigation is performed
C7_NoNavigationBeforeHydration ==
  [][~isHydrated => (route' = route /\ hasNavigated' = hasNavigated)]_vars

\* the animation is over and the splash screen waits for hydration only
C7_Witness ==
  ~isHydrated /\ isAnimationComplete /\ route = "splash" /\ ~hasNavigated

\* C8: the startup load always ends with isHydrated = true, and a failed
\* load ends with the default logged-out values
C8_HydrationAlwaysCompletes ==
  /\ ~isHydrated ~> isHydrated
  /\ [][(loadState = "loading" /\ loadState' = "error")
          => (isHydrated' /\ user' = Null /\ token' = Null
              /\ ~isAuthenticated')]_vars

\* the load failed over a stored authenticated session and the store is
\* hydrated and logged out
C8_Witness ==
  loadState = "error" /\ isHydrated /\ LoggedOut /\ disk.isAuthenticated

\* C9: once hydrated, an unauthenticated store in the tabs group is
\* redirected to login and an authenticated store in the auth group to the
\* tabs: no such mismatch is left when nothing is in flight and no guard
\* run is due
C9_GuardRedirects ==
  (isHydrated /\ Quiescent /\ ~GuardPending)
    => /\ ~(~isAuthenticated /\ Group(route) = "tabs")
       /\ ~(isAuthenticated /\ Group(route) = "auth")

\* C10: after hydration every change of isAuthenticated or of the route
\* group is followed by a new decision of the guard: a change is never left
\* without a guard run due
C10_GuardReRuns == pendingChange => GuardPending

\* C11: getSession returns null without throwing exactly when the backend
\* answers 401, and throws the normalized error for every other failure
C11_GetSessionNullOnlyOn401 ==
  (settled.kind = GetSession /\ Failed(settled))
    => IF settled.raw.status = 401
       THEN settled.outcome = "success" /\ settled.rUser = Null
       ELSE settled.outcome = "error" /\ settled.err = Normalize(settled.raw)

\* C12: a 401 answered to a request made with an authenticated session
\* leaves the session store logged out and the secure-store token absent
C12_Unauthorized401DestroysSession ==
  [][(settled'.kind \in Kinds \ {SignOut} /\ settled'.raw.status = 401
        /\ isAuthenticated)
       => (LoggedOut' /\ secureToken' = Null)]_vars

\* C14: logout() sets user = null, token = null and isAuthenticated = false
\* and leaves rememberedEmail as it was
C14_LogoutKeepsRememberedEmail ==
  [][(settled'.kind = SignOut /\ settled'.authed)
       => (LoggedOut' /\ rememberedEmail' = rememberedEmail)]_vars

\* a sign-out of an authenticated store called logout() while an email was
\* remembered, and the email is still there
C14_Witness ==
  /\ settled.kind = SignOut /\ settled.authed
  /\ LoggedOut
  /\ rememberedEmail \in Emails
  /\ disk.rememberedEmail = rememberedEmail

\* ======================================================= login screen
\* AsyncStorage calls on 'swuva-remembered-email' that may be pending at once
MaxStorageOps == 2
\* requests of one kind that may be without an answer at once
MaxCalls == 2

\* the app hydrated and logged out, showing screen r
MainOn(r) ==
  /\ user = Null
  /\ token = Null
  /\ isAuthenticated = FALSE
  /\ isHydrated = TRUE
  /\ rememberedEmail = Null
  /\ disk = Partialize(Null, Null, FALSE, Null)
  /\ loadState = "ok"
  /\ secureToken = Null
  /\ route = r
  /\ isAnimationComplete = TRUE
  /\ hasNavigated = TRUE
  /\ splashRead = FALSE
  /\ onboardingCompleted = TRUE
  /\ flows = [f \in FlowIds |-> IdleFlow]
  /\ settled = NoEvent
  /\ pendingChange = FALSE

MainIdle == MainOn("login")

\* the variables a step of the login screen leaves alone besides the store
loginFrame == <<isHydrated, rememberedEmail, loadState, isAnimationComplete,
                hasNavigated, splashRead, onboardingCompleted, flows, settled,
                pendingChange>>

\* an AsyncStorage call: getItem of loadRememberedEmail (live: the effect's
\* isMounted flag), setItem / removeItem of handleLogin, removeItem of
\* toggleRememberMe (explicit: the user had unticked the box)
StorageOp(op, val, by, live, explicit) ==
  [op |-> op, val |-> val, by |-> by, live |-> live, explicit |-> explicit]

GetOp == StorageOp("get", Null, "load", TRUE, FALSE)

\* the effect's cleanup: isMounted = false for the load still pending
Cleanup(q) ==
  [i \in 1..Len(q) |-> IF q[i].op = "get" THEN [q[i] EXCEPT !.live = FALSE]
                       ELSE q[i]]

\* the screen mounts: useState initial values, and the effect starts
\* loadRememberedEmail, which awaits AsyncStorage.getItem
LoginMount ==
  /\ rememberMeRef' = FALSE
  /\ emailField' = ""
  /\ unticked' = FALSE
  /\ lastRemove' = "none"
  /\ storageQueue' = Append(storageQueue, GetOp)

LoginUnmount ==
  /\ rememberMeRef' = FALSE
  /\ emailField' = ""
  /\ unticked' = FALSE
  /\ lastRemove' = "none"
  /\ storageQueue' = Cleanup(storageQueue)

LoginInit ==
  /\ MainIdle
  /\ OtpIdle
  /\ SlotIdle
  /\ ForgotIdle
  /\ RegisterIdle
  /\ MockIdle
  /\ DebounceIdle
  /\ before = NoLifetime
  /\ lsEntry \in {Null} \cup Emails
  /\ rememberMeRef = FALSE
  /\ emailField = ""
  /\ storageQueue = <<GetOp>>
  /\ signInSent = FALSE
  /\ signInFlight = 0
  /\ unticked = FALSE
  /\ lastRemove = "none"

\* the link to the register screen
LoginLeave ==
  /\ route = "login"
  /\ route' = "register"
  /\ LoginUnmount
  /\ UNCHANGED <<lsEntry, signInSent, signInFlight>>
  /\ UNCHANGED <<user, token, isAuthenticated, disk, secureToken, loginFrame>>
  /\ UNCHANGED notLogin

\* back from the register screen, or the app started again after a sign-out
LoginEnter ==
  /\ \/ route = "register"
     \/ route = "tabs" /\ ~isAuthenticated /\ storageQueue = <<>>
                       /\ ~signInSent
  /\ Len(storageQueue) < MaxStorageOps
  /\ route' = "login"
  /\ LoginMount
  /\ UNCHANGED <<lsEntry, signInSent, signInFlight>>
  /\ UNCHANGED <<user, token, isAuthenticated, disk, secureToken, loginFrame>>
  /\ UNCHANGED notLogin

handleEmailChange(text) ==
  /\ route = "login"
  /\ emailField # text
  /\ emailField' = text
  /\ UNCHANGED <<lsEntry, rememberMeRef, storageQueue, signInSent,
                 signInFlight, unticked, lastRemove>>
  /\ UNCHANGED mainVars
  /\ UNCHANGED notLogin

ToggleNeverRemoves(newValue) == FALSE
\* toggleRememberMe: whether the toggle calls AsyncStorage.removeItem
ToggleRemoves(newValue) == ~newValue

toggleRememberMe ==
  LET newValue == ~rememberMeRef IN
  /\ route = "login"
  /\ ToggleRemoves(newValue) => Len(storageQueue) < MaxStorageOps
  /\ rememberMeRef' = newValue
  /\ unticked' = ~newValue
  /\ lastRemove' = "none"
  /\ storageQueue' =
       IF ToggleRemoves(newValue)
       THEN Append(storageQueue, StorageOp("remove", Null, "toggle", FALSE, TRUE))
       ELSE storageQueue
  /\ UNCHANGED <<lsEntry, emailField, signInSent, signInFlight>>
  /\ UNCHANGED mainVars
  /\ UNCHANGED notLogin

\* the presses of handleLogin suspended at their await
LoginsQueued ==
  Cardinality({i \in 1..Len(storageQueue) : storageQueue[i].by = "login"})

\* handleLogin with a form that validates, up to its await: the Login button
\* or the password field's submit key, which is never disabled
handleLogin ==
  LET shouldRemember == rememberMeRef IN
  /\ route = "login"
  /\ emailField # ""
  /\ Len(storageQueue) < MaxStorageOps
  /\ LoginsQueued + signInFlight < MaxCalls
  /\ storageQueue' = Append(storageQueue,
       IF shouldRemember
       THEN StorageOp("set", emailField, "login", FALSE, FALSE)
       ELSE StorageOp("remove", Null, "login", FALSE, unticked))
  /\ UNCHANGED <<lsEntry, rememberMeRef, emailField, signInSent,
                 signInFlight, unticked, lastRemove>>
  /\ UNCHANGED mainVars
  /\ UNCHANGED notLogin

\* the oldest AsyncStorage call settles (the native module serves the calls
\* in the order they were made) and the code awaiting it goes on:
\* loadRememberedEmail fills the field and ticks the box when an email was
\* stored and the screen is still mounted; handleLogin calls signIn.mutate
\* whether the call resolved or threw; toggleRememberMe ignores the outcome
StorageSettle(ok) ==
  LET o == Head(storageQueue)
      loaded == o.op = "get" /\ ok /\ o.live /\ lsEntry # Null
  IN
  /\ storageQueue # <<>>
  /\ storageQueue' = Tail(storageQueue)
  /\ lsEntry' = CASE o.op = "set" /\ ok -> o.val
                  [] o.op = "remove" /\ ok -> Null
                  [] OTHER -> lsEntry
  /\ emailField' = IF loaded THEN lsEntry ELSE emailField
  /\ rememberMeRef' = IF loaded THEN TRUE ELSE rememberMeRef
  /\ unticked' = IF loaded THEN FALSE ELSE unticked
  /\ signInSent' = (signInSent \/ o.by = "login")
  /\ signInFlight' = IF o.by = "login" THEN signInFlight + 1 ELSE signInFlight
  /\ lastRemove' = IF o.by = "toggle"
                   THEN (IF ok THEN "resolved" ELSE "rejected")
                   ELSE lastRemove
  /\ UNCHANGED mainVars
  /\ UNCHANGED notLogin

\* a sign-in is answered: useSignIn's onSuccess writes the token and calls
\* setAuth for every request; the callbacks handleLogin passed to mutate()
\* run for the observer's current mutation only (current), and the screen,
\* if still mounted, replaces the route
LoginSignInSettle(ok, current) ==
  LET told == current /\ route = "login" IN
  /\ signInFlight > 0
  /\ IF current THEN signInSent
     ELSE signInFlight > (IF signInSent THEN 1 ELSE 0)
  /\ signInFlight' = signInFlight - 1
  /\ signInSent' = IF current THEN FALSE ELSE signInSent
  /\ IF ok
     THEN /\ SetAuth("u1", "t1")
          /\ secureToken' = "t1"
          /\ IF told
             THEN route' = "tabs" /\ LoginUnmount
             ELSE UNCHANGED <<route, rememberMeRef, emailField, storageQueue,
                              unticked, lastRemove>>
     ELSE UNCHANGED <<storeVars, disk, secureToken, route, rememberMeRef,
                      emailField, storageQueue, unticked, lastRemove>>
  /\ UNCHANGED lsEntry
  /\ UNCHANGED <<loadState, isAnimationComplete, hasNavigated, splashRead,
                 onboardingCompleted, flows, settled, pendingChange>>
  /\ UNCHANGED notLogin

\* useSignOut's handler: the token is deleted and logout() runs
LoginSignOut ==
  /\ isAuthenticated
  /\ Logout
  /\ secureToken' = Null
  /\ UNCHANGED <<route, loginVars>>
  /\ UNCHANGED <<loadState, isAnimationComplete, hasNavigated, splashRead,
                 onboardingCompleted, flows, settled, pendingChange>>
  /\ UNCHANGED notLogin

LoginNext ==
  \/ LoginLeave
  \/ LoginEnter
  \/ \E text \in Emails \cup {""} : handleEmailChange(text)
  \/ toggleRememberMe
  \/ handleLogin
  \/ \E ok \in BOOLEAN : StorageSettle(ok)
  \/ \E ok \in BOOLEAN, current \in BOOLEAN : LoginSignInSettle(ok, current)
  \/ LoginSignOut

LoginSpec == LoginInit /\ [][LoginNext]_vars

\* C13: a stored remembered email is cleared only by the user's explicit
\* untick: every removal that clears it comes from a toggle or from a login
\* pressed after the user had unticked the box
C13_ClearedOnlyByUntick ==
  [][(lsEntry # Null /\ lsEntry' = Null)
       => /\ storageQueue # <<>>
          /\ Head(storageQueue).op = "remove"
          /\ Head(storageQueue).explicit]_vars

\* C15: once the removal started by unticking the box has settled without
\* error the entry is absent, whatever login work is or was in progress
C15_UntickRemovesEntry ==
  (/\ route = "login" /\ unticked
   /\ \A i \in 1..Len(storageQueue) : storageQueue[i].by # "toggle"
   /\ lastRemove # "rejected")
    => lsEntry = Null

\* the box was unticked while a login's setItem was pending; both calls
\* have settled, the sign-in is still in flight and the entry is gone
C15_Witness ==
  /\ route = "login" /\ unticked /\ lastRemove = "resolved"
  /\ storageQueue = <<>> /\ signInSent
  /\ lsEntry = Null

\* ==================================================== verify-otp screen
Mounted == route = "verify-otp"

\* the variables a step of the verify-otp screen leaves alone
otpFrame == <<isHydrated, rememberedEmail, loadState, isAnimationComplete,
              hasNavigated, splashRead, onboardingCompleted, flows, settled,
              pendingChange>>
sessionVars == <<user, token, isAuthenticated, disk, secureToken>>

\* startCountdown: the state is reset, the interval timerRef holds is
\* cleared and a new one is started
startCountdown ==
  /\ countdown' = RESEND_COOLDOWN
  /\ canResend' = FALSE
  /\ intervals' = (IF timerRef THEN intervals - 1 ELSE intervals) + 1
  /\ timerRef' = TRUE
  /\ ticks' = 0

\* a mutated cleanup that leaves the interval running
ClearCountdownLeaks ==
  /\ intervals' = intervals
  /\ timerRef' = FALSE
  /\ countdown' = RESEND_COOLDOWN
  /\ canResend' = FALSE
  /\ ticks' = 0

\* clearInterval(timerRef.current) of the effect cleanup
ClearCountdown ==
  /\ intervals' = IF timerRef THEN intervals - 1 ELSE intervals
  /\ timerRef' = FALSE
  /\ countdown' = RESEND_COOLDOWN
  /\ canResend' = FALSE
  /\ ticks' = 0

\* a render: the component reads the mutations' current isPending, and the
\* auto-verify effect runs again: its cleanup clears the timeout, its body
\* arms a new one when the code is complete, nothing is pending and no
\* error is displayed
Render ==
  /\ shownPending' = verifyLatest'
  /\ shownResending' = resendLatest'
  /\ autoTimer' = (otpLen' = OTP_LENGTH /\ ~verifyLatest' /\ ~otpError')

\* the component is unmounted: both effect cleanups run, its state is gone
Unmounted ==
  /\ ClearCountdown
  /\ otpLen' = 0
  /\ otpError' = FALSE
  /\ autoTimer' = FALSE
  /\ verifyLatest' = FALSE
  /\ shownPending' = FALSE
  /\ resendLatest' = FALSE
  /\ shownResending' = FALSE

OtpInit ==
  /\ MainOn("verify-otp")
  /\ LoginIdle
  /\ SlotIdle
  /\ ForgotIdle
  /\ RegisterIdle
  /\ MockIdle
  /\ DebounceIdle
  /\ before = NoLifetime
  /\ countdown = RESEND_COOLDOWN
  /\ canResend = FALSE
  /\ intervals = 1
  /\ timerRef = TRUE
  /\ ticks = 0
  /\ otpLen = 0
  /\ otpError = FALSE
  /\ autoTimer = FALSE
  /\ verifyInFlight = 0
  /\ verifyLatest = FALSE
  /\ shownPending = FALSE
  /\ resendInFlight = 0
  /\ resendLatest = FALSE
  /\ shownResending = FALSE
  /\ otpEvent = "mount"

\* the register screen pushes the verify-otp screen: initial state, and the
\* mount effect calls startCountdown
OtpMount ==
  /\ route = "register"
  /\ route' = "verify-otp"
  /\ startCountdown
  /\ otpLen' = 0
  /\ otpError' = FALSE
  /\ verifyLatest' = FALSE
  /\ resendLatest' = FALSE
  /\ Render
  /\ otpEvent' = "mount"
  /\ UNCHANGED <<verifyInFlight, resendInFlight, sessionVars, otpFrame, notOtp>>

\* the back button
OtpUnmount ==
  /\ Mounted
  /\ route' = "register"
  /\ Unmounted
  /\ otpEvent' = "unmount"
  /\ UNCHANGED <<verifyInFlight, resendInFlight, sessionVars, otpFrame, notOtp>>

TickReadyLate(prev) == prev <= 0
\* the interval's updater: whether this tick ends the countdown
TickReady(prev) == prev <= 1

\* an active interval fires
OtpTick ==
  /\ intervals > 0
  /\ ticks' = ticks + 1
  /\ IF TickReady(countdown)
     THEN /\ intervals' = IF timerRef THEN intervals - 1 ELSE intervals
          /\ timerRef' = FALSE
          /\ canResend' = TRUE
          /\ countdown' = 0
     ELSE /\ countdown' = countdown - 1
          /\ UNCHANGED <<intervals, timerRef, canResend>>
  /\ UNCHANGED <<otpLen, otpError, verifyInFlight, verifyLatest,
                 resendInFlight, resendLatest>>
  /\ Render
  /\ otpEvent' = "tick"
  /\ UNCHANGED <<route, sessionVars, otpFrame, notOtp>>

\* a digit typed (d = 1) or deleted (d = -1) in the OTP input, which is
\* disabled while the rendered isPending is true
handleOtpChange(d) ==
  /\ Mounted
  /\ ~shownPending
  /\ otpLen + d \in 0..OTP_LENGTH
  /\ otpLen' = otpLen + d
  /\ otpError' = FALSE
  /\ UNCHANGED <<countdownVars, verifyInFlight, verifyLatest, resendInFlight,
                 resendLatest>>
  /\ Render
  /\ otpEvent' = "key"
  /\ UNCHANGED <<route, sessionVars, otpFrame, notOtp>>

\* handleVerify with a complete code: verifyOTP.mutate.  No state of the
\* component changes, so nothing is rendered before the mutation observer's
\* notification is flushed
VerifyMutate ==
  /\ verifyInFlight < MaxCalls
  /\ verifyInFlight' = verifyInFlight + 1
  /\ verifyLatest' = TRUE
  /\ otpEvent' = "verify"
  /\ UNCHANGED <<countdownVars, otpLen, otpError, resendInFlight, resendLatest,
                 shownPending, shownResending>>
  /\ UNCHANGED <<route, sessionVars, otpFrame, notOtp>>

\* the Continue button, enabled by the last render
handleVerify ==
  /\ Mounted
  /\ ~shownPending
  /\ otpLen = OTP_LENGTH
  /\ VerifyMutate
  /\ UNCHANGED autoTimer

\* the auto-verify timeout fires and calls the handleVerify of its render
AutoVerify ==
  /\ autoTimer
  /\ autoTimer' = FALSE
  /\ VerifyMutate

\* the mutation observers' notification is flushed and the screen renders
OtpRender ==
  /\ Mounted
  /\ shownPending # verifyLatest \/ shownResending # resendLatest
  /\ UNCHANGED <<countdownVars, otpLen, otpError, verifyInFlight, verifyLatest,
                 resendInFlight, resendLatest>>
  /\ Render
  /\ otpEvent' = "render"
  /\ UNCHANGED <<route, sessionVars, otpFrame, notOtp>>

\* a verification is answered.  useVerifyEmailOTP's onSuccess stores the
\* token and calls setAuth for every request; the callbacks handleVerify
\* passed to mutate() run for the observer's current mutation only
\* (current), and only while the screen is mounted: success replaces the
\* route, failure displays the error
VerifySettle(ok, current) ==
  LET told == current /\ Mounted IN
  /\ verifyInFlight > 0
  /\ IF current THEN verifyLatest
     ELSE verifyInFlight > (IF verifyLatest THEN 1 ELSE 0)
  /\ verifyInFlight' = verifyInFlight - 1
  /\ verifyLatest' = IF current THEN FALSE ELSE verifyLatest
  /\ IF ok
     THEN /\ SetAuth("u1", "t1")
          /\ secureToken' = "t1"
     ELSE UNCHANGED <<storeVars, disk, secureToken>>
  /\ CASE told /\ ok ->
            /\ route' = "tabs"
            /\ ClearCountdown
            /\ otpLen' = 0
            /\ otpError' = FALSE
            /\ autoTimer' = FALSE
            /\ shownPending' = FALSE
            /\ resendLatest' = FALSE
            /\ shownResending' = FALSE
       [] told /\ ~ok ->
            /\ otpError' = TRUE
            /\ UNCHANGED <<route, countdownVars, otpLen, resendLatest>>
            /\ Render
       [] OTHER ->
            UNCHANGED <<route, countdownVars, otpLen, otpError, resendLatest,
                        renderVars>>
  /\ otpEvent' = IF ok THEN "verifyOk" ELSE "verifyFail"
  /\ UNCHANGED <<resendInFlight, loadState, isAnimationComplete, hasNavigated,
                 splashRead, onboardingCompleted, flows, settled,
                 pendingChange, notOtp>>

\* handleResend, past its guard on the rendered canResend and isPending
handleResend ==
  /\ Mounted
  /\ canResend
  /\ ~shownResending
  /\ resendInFlight < MaxCalls
  /\ resendInFlight' = resendInFlight + 1
  /\ resendLatest' = TRUE
  /\ otpEvent' = "resend"
  /\ UNCHANGED <<countdownVars, otpLen, otpError, verifyInFlight, verifyLatest,
                 renderVars>>
  /\ UNCHANGED <<route, sessionVars, otpFrame, notOtp>>

\* a resend is answered: the onSuccess handleResend passed to mutate()
\* restarts the countdown and empties the form; onError shows an alert
ResendSettle(ok, current) ==
  LET told == current /\ Mounted IN
  /\ resendInFlight > 0
  /\ IF current THEN resendLatest
     ELSE resendInFlight > (IF resendLatest THEN 1 ELSE 0)
  /\ resendInFlight' = resendInFlight - 1
  /\ resendLatest' = IF current THEN FALSE ELSE resendLatest
  /\ UNCHANGED <<verifyInFlight, verifyLatest>>
  /\ IF told /\ ok
     THEN /\ startCountdown
          /\ otpLen' = 0
          /\ otpError' = FALSE
          /\ Render
     ELSE UNCHANGED <<countdownVars, otpLen, otpError, renderVars>>
  /\ otpEvent' = CASE told /\ ok -> "resendOk"
                   [] told /\ ~ok -> "resendFail"
                   [] OTHER -> "resendDropped"
  /\ UNCHANGED <<route, sessionVars, otpFrame, notOtp>>

OtpNext ==
  \/ OtpMount
  \/ OtpUnmount
  \/ OtpTick
  \/ \E d \in {-1, 1} : handleOtpChange(d)
  \/ handleVerify
  \/ AutoVerify
  \/ OtpRender
  \/ \E ok \in BOOLEAN, current \in BOOLEAN : VerifySettle(ok, current)
  \/ handleResend
  \/ \E ok \in BOOLEAN, current \in BOOLEAN : ResendSettle(ok, current)

OtpSpec == OtpInit /\ [][OtpNext]_vars

\* the countdown as a function of the ticks since it was started
CountdownShape ==
  IF ticks < RESEND_COOLDOWN
  THEN countdown = RESEND_COOLDOWN - ticks /\ ~canResend /\ intervals = 1
  ELSE countdown = 0 /\ canResend /\ intervals = 0

Ready == countdown = 0 /\ canResend

C17_OneVerificationInFlight == verifyInFlight <= 1

\* ======================================================== OTP input slots
\* characters a keyboard can send: two digits and a non-digit
Digits == {"1", "2"}
Chars == Digits \cup {"a"}
\* what onChangeText can be called with
Texts == {<<>>, <<"1">>, <<"2">>, <<"a">>, <<"1", "2">>, <<"a", "1">>,
          <<"2", "a">>}

RECURSIVE CodesOfLength(_)
\* the digit strings of length n
CodesOfLength(n) ==
  IF n = 0 THEN {<<>>}
  ELSE {Append(c, d) : c \in CodesOfLength(n - 1), d \in Digits}

\* every value of 0 to OTP_LENGTH digits
Codes == UNION {CodesOfLength(n) : n \in 0..OTP_LENGTH}

\* slot s of the component is index s - 1 of the code
Slots == 1..OTP_LENGTH

\* digits[index] || '': the character slot s shows
Shown(v, s) == IF s <= Len(v) THEN v[s] ELSE ""

\* text.replace(/[^0-9]/g, '').slice(-1)
LastDigit(text) ==
  LET ds == SelectSeq(text, LAMBDA c : c \in Digits)
  IN IF ds = <<>> THEN "" ELSE ds[Len(ds)]

\* newValue[index] = x on the array value.split(''): an index past the end
\* leaves holes, which join('') renders as nothing
Assign(arr, s, x) ==
  IF s <= Len(arr) THEN [arr EXCEPT ![s] = x]
  ELSE arr \o [i \in 1..(s - Len(arr) - 1) |-> ""] \o <<x>>

\* array.join('')
Join(arr) == SelectSeq(arr, LAMBDA c : c # "")

\* string.slice(0, n)
Slice(v, n) == IF Len(v) <= n THEN v ELSE SubSeq(v, 1, n)

SlotInit ==
  /\ MainOn("verify-otp")
  /\ LoginIdle
  /\ OtpIdle
  /\ ForgotIdle
  /\ RegisterIdle
  /\ MockIdle
  /\ DebounceIdle
  /\ before = NoLifetime
  /\ otpValue \in Codes
  /\ slotEvent = NoSlotEvent

\* handleDigitChange(text, index): onChange is called when the text holds a
\* digit
handleDigitChange(text, s) ==
  LET digit == LastDigit(text) IN
  /\ digit # ""
  /\ otpValue' = Slice(Join(Assign(otpValue, s, digit)), OTP_LENGTH)
  /\ slotEvent' = [kind |-> "digit", slot |-> s]
  /\ UNCHANGED <<mainVars, notSlot>>

\* handleKeyPress('Backspace', index): the slot is cleared when it holds a
\* character, the previous slot otherwise
handleKeyPress(s) ==
  /\ IF Shown(otpValue, s) # ""
     THEN /\ otpValue' = Join(Assign(otpValue, s, ""))
          /\ slotEvent' = [kind |-> "clear", slot |-> s]
     ELSE /\ s > 1
          /\ otpValue' = Join(Assign(otpValue, s - 1, ""))
          /\ slotEvent' = [kind |-> "back", slot |-> s]
  /\ UNCHANGED <<mainVars, notSlot>>

SlotNext ==
  \/ \E text \in Texts, s \in Slots : handleDigitChange(text, s)
  \/ \E s \in Slots : handleKeyPress(s)

SlotSpec == SlotInit /\ [][SlotNext]_vars

\* C18: entering a digit in slot i, or clearing slot i with backspace,
\* leaves the character shown in every other slot as it was
C18_SlotsIndependent ==
  [][slotEvent'.kind \in {"digit", "clear"}
       => \A j \in Slots \ {slotEvent'.slot} :
            Shown(otpValue', j) = Shown(otpValue, j)]_vars

\* ================================================= forgot-password screen
\* strings are sequences of characters, so that trim, toLowerCase and
\* includes are computed
\* String.prototype.toLowerCase on one character
ToLower(c) ==
    CASE c = "A" -> "a"
      [] c = "B" -> "b"
      [] c = "C" -> "c"
      [] c = "D" -> "d"
      [] c = "E" -> "e"
      [] c = "F" -> "f"
      [] c = "G" -> "g"
      [] c = "H" -> "h"
      [] c = "I" -> "i"
      [] c = "J" -> "j"
      [] c = "K" -> "k"
      [] c = "L" -> "l"
      [] c = "M" -> "m"
      [] c = "N" -> "n"
      [] c = "O" -> "o"
      [] c = "P" -> "p"
      [] c = "Q" -> "q"
      [] c = "R" -> "r"
      [] c = "S" -> "s"
      [] c = "T" -> "t"
      [] c = "U" -> "u"
      [] c = "V" -> "v"
      [] c = "W" -> "w"
      [] c = "X" -> "x"
      [] c = "Y" -> "y"
      [] c = "Z" -> "z"
      [] OTHER -> c

Lower(str) == [i \in 1..Len(str) |-> ToLower(str[i])]

RECURSIVE TrimStart(_), TrimEnd(_)
TrimStart(str) ==
  IF str # <<>> /\ Head(str) = " " THEN TrimStart(Tail(str)) ELSE str
TrimEnd(str) ==
  IF str # <<>> /\ str[Len(str)] = " "
  THEN TrimEnd(SubSeq(str, 1, Len(str) - 1)) ELSE str
\* String.prototype.trim
Trim(str) == TrimEnd(TrimStart(str))

\* String.prototype.includes
Includes(str, part) ==
  \E i \in 1..(Len(str) - Len(part) + 1) :
    SubSeq(str, i, i + Len(part) - 1) = part

\* sanitizeEmail: email.trim().toLowerCase()
sanitizeEmail(email) == Lower(Trim(email))

\* validateEmail, for the characters of the inputs below: a local part and
\* a domain of letters around one @
validateEmail(email) ==
  LET e == Trim(email) IN
  \E i \in 2..(Len(e) - 1) :
    /\ e[i] = "@"
    /\ \A j \in (1..Len(e)) \ {i} : e[j] \notin {"@", " "}

\* what the user types: nothing, blanks, an address of a registered user
\* and of nobody, each in a clean and in an unsanitized form, and a text
\* that is no address
Registered == <<"k", "@", "x">>
Unknown == <<"n", "@", "x">>
FpInputs == {Empty, <<" ">>, Registered, <<" ", "K", "@", "x", " ">>, Unknown, <<"N", "@", "X", " ">>, <<"k", "x">>}

\* messages of the errors the request can fail with
MsgNotFound == <<"U", "s", "e", "r", " ", "n", "o", "t", " ", "f", "o", "u", "n", "d">>
MsgNotFoundBare == <<"R", "e", "q", "u", "e", "s", "t", " ", "f", "a", "i", "l", "e", "d", " ", "w", "i", "t", "h", " ", "s", "t", "a", "t", "u", "s", " ", "c", "o", "d", "e", " ", "4", "0", "4">>
MsgTooMany == <<"T", "o", "o", " ", "m", "a", "n", "y", " ", "r", "e", "q", "u", "e", "s", "t", "s">>
MsgRate == <<"R", "a", "t", "e", " ", "l", "i", "m", "i", "t", " ", "e", "x", "c", "e", "e", "d", "e", "d">>
MsgNetwork == <<"N", "e", "t", "w", "o", "r", "k", " ", "E", "r", "r", "o", "r">>
MsgServer == <<"I", "n", "t", "e", "r", "n", "a", "l", " ", "s", "e", "r", "v", "e", "r", " ", "e", "r", "r", "o", "r">>
NoMessage == Empty

\* the answers of the backend to a request for an email: success for a
\* registered address; success or an email-not-found error for any other;
\* rate limiting, a network failure or a server error for either
AnswersFor(email) ==
  (IF email = Registered
   THEN {[kind |-> "success", message |-> NoMessage]}
   ELSE {[kind |-> "success", message |-> NoMessage],
         [kind |-> "notFound", message |-> MsgNotFound],
         [kind |-> "notFound", message |-> MsgNotFoundBare]})
  \cup {[kind |-> "rateLimit", message |-> MsgTooMany],
        [kind |-> "rateLimit", message |-> MsgRate],
        [kind |-> "network", message |-> MsgNetwork],
        [kind |-> "server", message |-> MsgServer]}

\* onError: the rate-limiting test
IsRateLimit(message) ==
  \/ Includes(Lower(message), <<"r", "a", "t", "e">>)
  \/ Includes(Lower(message), <<"t", "o", "o", " ", "m", "a", "n", "y">>)

\* onError: the network test
IsNetwork(message) ==
  \/ Includes(Lower(message), <<"n", "e", "t", "w", "o", "r", "k">>)
  \/ Includes(Lower(message), <<"c", "o", "n", "n", "e", "c", "t", "i", "o", "n">>)

ErrorNeverNavigates(message) == FALSE
\* onError: whether the screen goes on to reset-password all the same
ErrorNavigates(message) == ~IsRateLimit(message) /\ ~IsNetwork(message)

ForgotInit ==
  /\ MainOn("login")
  /\ LoginIdle
  /\ OtpIdle
  /\ SlotIdle
  /\ RegisterIdle
  /\ MockIdle
  /\ DebounceIdle
  /\ before = NoLifetime
  /\ fpEmail = Empty
  /\ fpError = "none"
  /\ fpTouched = FALSE
  /\ fpInFlight = NoRequest
  /\ fpRoute = "forgot-password"
  /\ fpParam = Empty
  /\ fpAlert = "none"
  /\ fpSettled = NoAnswer

\* the screen is on top of the stack and no alert covers it
FpActive == fpRoute = "forgot-password" /\ fpAlert = "none"

\* handleEmailChange of the forgot-password screen
FpEmailChange(text) ==
  /\ FpActive
  /\ fpEmail # text
  /\ fpEmail' = text
  /\ fpError' = IF fpTouched /\ Trim(text) # Empty /\ validateEmail(Trim(text))
                THEN "none" ELSE fpError
  /\ fpSettled' = NoAnswer
  /\ UNCHANGED <<fpTouched, fpInFlight, fpRoute, fpParam, fpAlert>>
  /\ UNCHANGED <<mainVars, notForgot>>

handleEmailBlur ==
  /\ FpActive
  /\ ~fpTouched
  /\ fpTouched' = TRUE
  /\ fpError' = CASE Trim(fpEmail) = Empty -> "required"
                  [] ~validateEmail(Trim(fpEmail)) -> "invalid"
                  [] OTHER -> "none"
  /\ fpSettled' = NoAnswer
  /\ UNCHANGED <<fpEmail, fpInFlight, fpRoute, fpParam, fpAlert>>
  /\ UNCHANGED <<mainVars, notForgot>>

\* handleSubmit: validateForm, then forgotPassword.mutate with the
\* sanitized email; the button is disabled while the mutation is pending
handleSubmit ==
  /\ FpActive
  /\ fpInFlight = NoRequest
  /\ Trim(fpEmail) # Empty \/ fpError # "required"
  /\ IF Trim(fpEmail) = Empty
     THEN fpError' = "required" /\ fpInFlight' = fpInFlight
     ELSE IF ~validateEmail(Trim(fpEmail))
     THEN fpError' = "invalid" /\ fpInFlight' = fpInFlight
     ELSE /\ fpError' = fpError
          /\ fpInFlight' = [email |-> sanitizeEmail(fpEmail), live |-> TRUE]
  /\ fpSettled' = NoAnswer
  /\ UNCHANGED <<fpEmail, fpTouched, fpRoute, fpParam, fpAlert>>
  /\ UNCHANGED <<mainVars, notForgot>>

\* the request is answered: onSuccess pushes reset-password; onError shows
\* an alert for a rate-limiting or network message and pushes reset-password
\* for every other error; neither does anything after the unmount
FpSettle(answer) ==
  LET email == fpInFlight.email
      told == fpInFlight.live
      go == answer.kind = "success" \/ ErrorNavigates(answer.message)
  IN
  /\ fpInFlight # NoRequest
  /\ answer \in AnswersFor(email)
  /\ fpInFlight' = NoRequest
  /\ fpSettled' = [kind |-> answer.kind, email |-> email, told |-> told]
  /\ IF told /\ go
     THEN fpRoute' = "reset-password" /\ fpParam' = email
     ELSE UNCHANGED <<fpRoute, fpParam>>
  /\ fpAlert' = CASE ~told \/ go -> fpAlert
                  [] IsRateLimit(answer.message) -> "rate"
                  [] OTHER -> "network"
  /\ UNCHANGED <<fpEmail, fpError, fpTouched>>
  /\ UNCHANGED <<mainVars, notForgot>>

\* the alert's OK / Cancel button
FpDismiss ==
  /\ fpAlert # "none"
  /\ fpAlert' = "none"
  /\ fpSettled' = NoAnswer
  /\ UNCHANGED <<fpEmail, fpError, fpTouched, fpInFlight, fpRoute, fpParam>>
  /\ UNCHANGED <<mainVars, notForgot>>

\* back: from reset-password to this screen, from this screen to login,
\* which unmounts it (isMountedRef.current = false)
FpBack ==
  /\ fpAlert = "none"
  /\ \/ /\ fpRoute = "reset-password"
        /\ fpRoute' = "forgot-password"
        /\ fpParam' = Empty
        /\ UNCHANGED <<fpEmail, fpError, fpTouched, fpInFlight>>
     \/ /\ fpRoute = "forgot-password"
        /\ fpRoute' = "login"
        /\ fpEmail' = Empty
        /\ fpError' = "none"
        /\ fpTouched' = FALSE
        /\ fpInFlight' = IF fpInFlight = NoRequest THEN NoRequest
                         ELSE [fpInFlight EXCEPT !.live = FALSE]
        /\ UNCHANGED fpParam
  /\ fpSettled' = NoAnswer
  /\ UNCHANGED fpAlert
  /\ UNCHANGED <<mainVars, notForgot>>

\* login's 'Forgot password?' pushes a new instance of the screen
handleForgotPassword ==
  /\ fpRoute = "login"
  /\ fpInFlight = NoRequest
  /\ fpRoute' = "forgot-password"
  /\ fpSettled' = NoAnswer
  /\ UNCHANGED <<fpEmail, fpError, fpTouched, fpInFlight, fpParam, fpAlert>>
  /\ UNCHANGED <<mainVars, notForgot>>

ForgotNext ==
  \/ \E text \in FpInputs : FpEmailChange(text)
  \/ handleEmailBlur
  \/ handleSubmit
  \/ \E email \in {Registered, Unknown} :
       \E answer \in AnswersFor(email) : FpSettle(answer)
  \/ FpDismiss
  \/ FpBack
  \/ handleForgotPassword

ForgotSpec == ForgotInit /\ [][ForgotNext]_vars

\* C19: a submitted, validly formatted email leads to the reset-password
\* screen for that email with no alert, in the same way when the backend
\* answers success and when it answers that the email is not found, for a
\* registered and for an unregistered address
C19_NoAccountEnumeration ==
  (fpSettled.kind \in {"success", "notFound"} /\ fpSettled.told)
    => /\ fpRoute = "reset-password"
       /\ fpParam = fpSettled.email
       /\ fpAlert = "none"

\* an unregistered address typed in an unsanitized form was answered with
\* email-not-found and the reset-password screen is shown for it
C19_Witness ==
  /\ fpSettled.kind = "notFound" /\ fpSettled.told
  /\ fpSettled.email = Unknown /\ fpEmail # Unknown
  /\ fpRoute = "reset-password" /\ fpParam = Unknown

\* ===================================================== process restarts
\* the store as an API: setAuth, logout and setRememberedEmail called by
\* any code once the startup load has finished, and the process ending and
\* starting again over the same durable storage
StoreSetAuth(u, t) ==
  /\ isHydrated
  /\ SetAuth(u, t)
  /\ settled' = [NoEvent EXCEPT !.kind = "setAuth", !.rUser = u, !.rToken = t]
  /\ UNCHANGED <<loadState, secureToken, route, splashVars,
                 onboardingCompleted, flows, before, notPersist>>
  /\ Track

StoreLogout ==
  /\ isHydrated
  /\ Logout
  /\ settled' = NoEvent
  /\ UNCHANGED <<loadState, secureToken, route, splashVars,
                 onboardingCompleted, flows, before, notPersist>>
  /\ Track

StoreSetRememberedEmail(e) ==
  /\ isHydrated
  /\ rememberedEmail' = e
  /\ disk' = Partialize(user, token, isAuthenticated, e)
  /\ settled' = NoEvent
  /\ UNCHANGED <<user, token, isAuthenticated, isHydrated, loadState,
                 secureToken, route, splashVars, onboardingCompleted, flows,
                 before, notPersist>>
  /\ Track

\* history: the persisted fields as the store holds them, whether the
\* startup load had finished and whether storage holds the same
Snapshot ==
  [taken |-> TRUE, hydrated |-> isHydrated,
   synced |-> disk = Partialize(user, token, isAuthenticated, rememberedEmail),
   user |-> user, token |-> token, isAuthenticated |-> isAuthenticated,
   rememberedEmail |-> rememberedEmail]

\* the process ends and a new one starts: the store is created again with
\* its initial state and starts its load; durable storage is kept
Restart ==
  /\ before' = Snapshot
  /\ user' = Null
  /\ token' = Null
  /\ isAuthenticated' = FALSE
  /\ isHydrated' = FALSE
  /\ rememberedEmail' = Null
  /\ loadState' = "loading"
  /\ route' = "splash"
  /\ isAnimationComplete' = FALSE
  /\ hasNavigated' = FALSE
  /\ splashRead' = FALSE
  /\ flows' = [f \in FlowIds |-> IdleFlow]
  /\ settled' = NoEvent
  /\ pendingChange' = FALSE
  /\ UNCHANGED <<disk, secureToken, onboardingCompleted, notPersist>>

PersistNext ==
  \/ HydrateOk
  \/ HydrateFail
  \/ \E u \in Users, t \in Tokens : StoreSetAuth(u, t)
  \/ StoreLogout
  \/ \E e \in Emails \cup {Null} : StoreSetRememberedEmail(e)
  \/ Restart

PersistSpec == Init /\ [][PersistNext]_vars

C21_SetAuthReadBack ==
  settled.kind = "setAuth"
    => /\ isAuthenticated
       /\ user = settled.rUser
       /\ token = settled.rToken
       /\ disk = Partialize(settled.rUser, settled.rToken, TRUE, rememberedEmail)

\* setAuth(u2, t2) was called in a process that had loaded the session of
\* u1 from storage
C21_Witness ==
  /\ settled.kind = "setAuth"
  /\ before.taken /\ before.synced /\ before.user = "u1" /\ before.token = "t1"
  /\ user = "u2" /\ token = "t2" /\ isAuthenticated

\* ======================================================= register screen
\* a request of the screen without an answer: the hook's stage (the sign-up
\* request, the token write of useSignUp's onSuccess, the verification-OTP
\* request), the sanitized email and the field text of the press that
\* started it, and whether the callbacks passed to mutate() will still run
RegCall(kind, email, raw, live) ==
  [kind |-> kind, email |-> email, raw |-> raw, live |-> live]

\* the mutation hook a stage belongs to
HookOf(kind) == IF kind = "otp" THEN "requestOTP" ELSE "signUp"

\* MutationObserver.mutate: the observer leaves the hook's previous mutation,
\* whose mutate() callbacks never run
Detach(calls, hook) ==
  [i \in 1..Len(calls) |->
     IF HookOf(calls[i].kind) = hook THEN [calls[i] EXCEPT !.live = FALSE]
     ELSE calls[i]]

\* the component unmounts: no mutate() callback runs any more
DetachAll(calls) == [i \in 1..Len(calls) |-> [calls[i] EXCEPT !.live = FALSE]]

\* the sequence without its element i
Without(calls, i) ==
  SubSeq(calls, 1, i - 1) \o SubSeq(calls, i + 1, Len(calls))

\* the variables a step of the register screen leaves alone
regFrame == <<storeVars, disk, loadState, isAnimationComplete, hasNavigated,
              splashRead, onboardingCompleted, flows, settled, pendingChange>>

RegisterInit ==
  /\ MainOn("register")
  /\ LoginIdle
  /\ OtpIdle
  /\ SlotIdle
  /\ ForgotIdle
  /\ MockIdle
  /\ DebounceIdle
  /\ before = NoLifetime
  /\ regEmail = <<>>
  /\ regOther = FALSE
  /\ regCalls = <<>>
  /\ regParam = <<>>
  /\ regShown = "none"
  /\ regEvent = NoRegEvent

\* the screen is focused and no alert covers it
RegActive == route = "register" /\ regShown # "alert"

\* handleEmailChange of the register screen
RegEmailChange(text) ==
  /\ RegActive
  /\ regEmail # text
  /\ regEmail' = text
  /\ regShown' = "none"
  /\ regEvent' = NoRegEvent
  /\ UNCHANGED <<regOther, regCalls, regParam>>
  /\ UNCHANGED <<route, secureToken, regFrame, notRegister>>

\* the other fields and the terms box are filled in, or emptied
RegOtherChange ==
  /\ RegActive
  /\ regOther' = ~regOther
  /\ regShown' = "none"
  /\ regEvent' = NoRegEvent
  /\ UNCHANGED <<regEmail, regCalls, regParam>>
  /\ UNCHANGED <<route, secureToken, regFrame, notRegister>>

\* validateForm of the register screen
RegValid == regOther /\ Trim(regEmail) # <<>> /\ validateEmail(Trim(regEmail))

\* handleRegister: the Register button, disabled while a mutation is
\* pending, or the submit key of the confirm-password field, which is not
handleRegister ==
  /\ RegActive
  /\ Len(regCalls) < MaxCalls
  /\ IF RegValid
     THEN /\ regCalls' = Append(Detach(regCalls, "signUp"),
                 RegCall("signUp", sanitizeEmail(regEmail), regEmail, TRUE))
          /\ regShown' = "none"
     ELSE /\ regCalls' = regCalls
          /\ regShown' = "formError"
  /\ regEvent' = NoRegEvent
  /\ UNCHANGED <<regEmail, regOther, regParam>>
  /\ UNCHANGED <<route, secureToken, regFrame, notRegister>>

\* the screen's onSuccess of signUp.mutate: requestOTP.mutate with the
\* sanitized email of the press
RegOnSuccess(i) ==
  LET c == regCalls[i] IN
  /\ regCalls' =
       IF c.live
       THEN Append(Detach(Without(regCalls, i), "requestOTP"),
                   RegCall("otp", c.email, c.raw, TRUE))
       ELSE Without(regCalls, i)
  /\ regEvent' = [kind |-> IF c.live THEN "signUpOk" ELSE "signUpDropped",
                  email |-> c.email, raw |-> c.raw]
  /\ UNCHANGED regShown

\* the screen's onError of signUp.mutate: a field error when the message
\* names an existing email, an alert otherwise
RegOnError(i, exists) ==
  LET c == regCalls[i] IN
  /\ regCalls' = Without(regCalls, i)
  /\ regShown' = CASE ~c.live -> regShown
                   [] exists -> "emailError"
                   [] OTHER -> "alert"
  /\ regEvent' = [kind |-> IF c.live THEN "signUpFail" ELSE "signUpDropped",
                  email |-> c.email, raw |-> c.raw]

\* the sign-up request is answered: 2xx without session, 2xx with a session
\* token (useSignUp's onSuccess awaits the token write), the email exists,
\* any other failure
RegSignUpAnswer(i, answer) ==
  /\ i \in 1..Len(regCalls)
  /\ regCalls[i].kind = "signUp"
  /\ CASE answer = "ok" -> RegOnSuccess(i)
       [] answer = "okToken" ->
            /\ regCalls' = [regCalls EXCEPT ![i].kind = "writing"]
            /\ regEvent' = NoRegEvent
            /\ UNCHANGED regShown
       [] answer = "exists" -> RegOnError(i, TRUE)
       [] OTHER -> RegOnError(i, FALSE)
  /\ UNCHANGED <<regEmail, regOther, regParam>>
  /\ UNCHANGED <<route, secureToken, regFrame, notRegister>>

\* SecureStore.setItemAsync of useSignUp's onSuccess settles: resolved, the
\* mutation succeeds; rejected, the handler throws and the mutation fails
RegWriteSettle(i, ok) ==
  /\ i \in 1..Len(regCalls)
  /\ regCalls[i].kind = "writing"
  /\ IF ok
     THEN secureToken' = "t1" /\ RegOnSuccess(i)
     ELSE secureToken' = secureToken /\ RegOnError(i, FALSE)
  /\ UNCHANGED <<regEmail, regOther, regParam>>
  /\ UNCHANGED <<route, regFrame, notRegister>>

\* a mutated onError of requestOTP.mutate that stays on the screen
OtpAnswerStaysOnError(ok) == ok
\* whether the callback of requestOTP.mutate pushes the verify-otp screen
OtpAnswerNavigates(ok) == TRUE

\* the verification-OTP request is answered: onSuccess and onError both push
\* the verify-otp screen with the sanitized email
RegOtpAnswer(i, ok) ==
  LET c == regCalls[i]
      go == c.live /\ OtpAnswerNavigates(ok)
  IN
  /\ i \in 1..Len(regCalls)
  /\ c.kind = "otp"
  /\ regCalls' = Without(regCalls, i)
  /\ route' = IF go THEN "verify-otp" ELSE route
  /\ regParam' = IF go THEN c.email ELSE regParam
  /\ regEvent' = [kind |-> CASE ~c.live -> "otpDropped"
                             [] ok -> "otpOk"
                             [] OTHER -> "otpFail",
                  email |-> c.email, raw |-> c.raw]
  /\ UNCHANGED <<regEmail, regOther, regShown>>
  /\ UNCHANGED <<secureToken, regFrame, notRegister>>

\* the alert's button
RegDismiss ==
  /\ regShown = "alert"
  /\ regShown' = "none"
  /\ regEvent' = NoRegEvent
  /\ UNCHANGED <<regEmail, regOther, regCalls, regParam>>
  /\ UNCHANGED <<route, secureToken, regFrame, notRegister>>

\* back from the verify-otp screen: the register screen below it in the
\* stack, still mounted, is focused again
RegBack ==
  /\ route = "verify-otp"
  /\ route' = "register"
  /\ regParam' = <<>>
  /\ regEvent' = NoRegEvent
  /\ UNCHANGED <<regEmail, regOther, regCalls, regShown>>
  /\ UNCHANGED <<secureToken, regFrame, notRegister>>

\* the Login link: the register screen is unmounted
RegLeave ==
  /\ RegActive
  /\ route' = "login"
  /\ regEmail' = <<>>
  /\ regOther' = FALSE
  /\ regShown' = "none"
  /\ regCalls' = DetachAll(regCalls)
  /\ regEvent' = NoRegEvent
  /\ UNCHANGED regParam
  /\ UNCHANGED <<secureToken, regFrame, notRegister>>

\* the Register link of the login screen mounts a new instance
RegEnter ==
  /\ route = "login"
  /\ route' = "register"
  /\ regEvent' = NoRegEvent
  /\ UNCHANGED <<regEmail, regOther, regCalls, regParam, regShown>>
  /\ UNCHANGED <<secureToken, regFrame, notRegister>>

RegisterNext ==
  \/ \E text \in FpInputs : RegEmailChange(text)
  \/ RegOtherChange
  \/ handleRegister
  \/ \E i \in 1..MaxCalls, answer \in {"ok", "okToken", "exists", "fail"} :
       RegSignUpAnswer(i, answer)
  \/ \E i \in 1..MaxCalls, ok \in BOOLEAN : RegWriteSettle(i, ok)
  \/ \E i \in 1..MaxCalls, ok \in BOOLEAN : RegOtpAnswer(i, ok)
  \/ RegDismiss
  \/ RegBack
  \/ RegLeave
  \/ RegEnter

RegisterSpec == RegisterInit /\ [][RegisterNext]_vars

SignInHandler == [method |-> "POST", path |-> "/auth/sign-in"]
SignUpHandler == [method |-> "POST", path |-> "/auth/sign-up"]
GetSessionHandler == [method |-> "GET", path |-> "/auth/get-session"]
SignOutHandler == [method |-> "POST", path |-> "/auth/sign-out"]
Handlers == {SignInHandler, SignUpHandler, GetSessionHandler, SignOutHandler}

\* the requests authService makes: method and path below the api's baseURL,
\* whose default is the mock's API_URL
SignInRequest == [method |-> "POST", path |-> "/auth/sign-in/email"]
SignUpRequest == [method |-> "POST", path |-> "/auth/sign-up/email"]
GetSessionRequest == [method |-> "GET", path |-> "/auth/get-session"]
SignOutRequest == [method |-> "POST", path |-> "/auth/sign-out"]

\* msw matches a request against a handler whose path has no parameter or
\* wildcard when method and path are the same
Handled(request, handler) ==
  /\ request.method = handler.method
  /\ request.path = handler.path

MockUser == "user-1"
MockToken == "mock-session-token"
MockEmails == {"buyer@example.com", "other@example.com", "Buyer@example.com"}
MockPasswords == {"password123", "wrong"}

\* the answer to a request: the response of the handler that matches it;
\* with onUnhandledRequest: 'error' a request no handler matches fails
\* without a response
MockAnswer(request, input) ==
  LET matching == {h \in Handlers : Handled(request, h)} IN
  IF matching = {}
  THEN [status |-> NoResponse, user |-> Null, token |-> Null]
  ELSE LET handler == CHOOSE h \in matching : TRUE IN
       CASE handler = SignInHandler ->
              IF input.email = "buyer@example.com"
                 /\ input.password = "password123"
              THEN [status |-> 200, user |-> MockUser, token |-> MockToken]
              ELSE [status |-> 401, user |-> Null, token |-> Null]
         [] handler = SignUpHandler ->
              [status |-> 200, user |-> "new-user-id", token |-> Null]
         [] handler = GetSessionHandler ->
              [status |-> 200, user |-> MockUser, token |-> MockToken]
         [] OTHER -> [status |-> 200, user |-> Null, token |-> Null]

\* what the service call returns or throws: the response data on 2xx, the
\* error normalized by the response interceptor otherwise
ServiceResult(call, input, answer) ==
  [call |-> call, email |-> input.email, password |-> input.password,
   outcome |-> IF answer.status = 200 THEN "success" ELSE "error",
   status |-> IF answer.status = NoResponse THEN 500 ELSE answer.status,
   user |-> answer.user, token |-> answer.token]

MockInit ==
  /\ MainOn("login")
  /\ LoginIdle
  /\ OtpIdle
  /\ SlotIdle
  /\ ForgotIdle
  /\ RegisterIdle
  /\ DebounceIdle
  /\ before = NoLifetime
  /\ mkInput \in [email : MockEmails, password : MockPasswords]
  /\ mkSignIn = NoResult
  /\ mkSession = NoResult
  /\ mkOther = NoResult

\* the test picks other credentials
MockChoose(input) ==
  /\ mkInput # input
  /\ mkInput' = input
  /\ UNCHANGED <<mkSignIn, mkSession, mkOther>>
  /\ UNCHANGED <<mainVars, notMock>>

\* authService.signIn(input)
MockSignIn ==
  /\ mkSignIn' = ServiceResult("signIn", mkInput,
                   MockAnswer(SignInRequest, mkInput))
  /\ mkSession' = NoResult
  /\ UNCHANGED <<mkInput, mkOther>>
  /\ UNCHANGED <<mainVars, notMock>>

\* authService.getSession(): every error is caught and null returned
MockGetSession ==
  LET r == ServiceResult("getSession", mkInput,
             MockAnswer(GetSessionRequest, mkInput))
  IN
  /\ mkSession' = IF r.outcome = "error"
                  THEN [r EXCEPT !.outcome = "null", !.user = Null,
                                 !.token = Null]
                  ELSE r
  /\ UNCHANGED <<mkInput, mkSignIn, mkOther>>
  /\ UNCHANGED <<mainVars, notMock>>

\* authService.signUp(input)
MockSignUp ==
  /\ mkOther' = ServiceResult("signUp", mkInput,
                  MockAnswer(SignUpRequest, mkInput))
  /\ UNCHANGED <<mkInput, mkSignIn, mkSession>>
  /\ UNCHANGED <<mainVars, notMock>>

\* authService.signOut()
MockSignOut ==
  /\ mkOther' = ServiceResult("signOut", mkInput,
                  MockAnswer(SignOutRequest, mkInput))
  /\ UNCHANGED <<mkInput, mkSignIn, mkSession>>
  /\ UNCHANGED <<mainVars, notMock>>

MockNext ==
  \/ \E input \in [email : MockEmails, password : MockPasswords] :
       MockChoose(input)
  \/ MockSignIn
  \/ MockGetSession
  \/ MockSignUp
  \/ MockSignOut

MockSpec == MockInit /\ [][MockNext]_vars

\* C23: against the mock backend, signIn with buyer@example.com and
\* password123 returns a session whose token is mock-session-token, and a
\* getSession made after it returns the same user
C23_MockSignInThenSession ==
  (/\ mkSignIn.call = "signIn"
   /\ mkSignIn.email = "buyer@example.com"
   /\ mkSignIn.password = "password123")
    => /\ mkSignIn.outcome = "success"
       /\ mkSignIn.token = MockToken
       /\ mkSession.call = "getSession"
            => (mkSession.outcome = "success"
                /\ mkSession.user = mkSignIn.user)

\* ================================================================ debounce
\* the clock stops at MaxTime; delays of 1 to MaxDelay milliseconds
MaxTime == 8
MaxDelay == 2
\* the arguments fn is called with
DbArgs == {"a", "b"}

DebounceInit ==
  /\ MainOn("login")
  /\ LoginIdle
  /\ OtpIdle
  /\ SlotIdle
  /\ ForgotIdle
  /\ RegisterIdle
  /\ MockIdle
  /\ before = NoLifetime
  /\ dbDelay \in 1..MaxDelay
  /\ dbNow = 0
  /\ dbTimers = {}
  /\ timeoutId = NoTimer
  /\ dbLast = NoCall
  /\ dbFired = 0
  /\ dbEvent = NoDbEvent

\* a timeout whose time has come; the timer queue runs it before the clock
\* moves on and before other code runs
Due(t) == t.due <= dbNow

\* a mutated debounce without clearTimeout
KeepTimeout(timers, id) == timers
\* clearTimeout(timeoutId)
ClearTimeout(timers, id) == timers \ {id}

\* the debounced function is called with args: the timeout set last is
\* cleared and a new one is set
DebouncedCall(args) ==
  LET new == [due |-> dbNow + dbDelay, args |-> args] IN
  /\ \A t \in dbTimers : ~Due(t)
  /\ dbTimers' = ClearTimeout(dbTimers, timeoutId) \cup {new}
  /\ timeoutId' = new
  /\ dbLast' = [any |-> TRUE, time |-> dbNow, args |-> args]
  /\ dbFired' = 0
  /\ dbEvent' = [kind |-> "call", args |-> args]
  /\ UNCHANGED <<dbDelay, dbNow>>
  /\ UNCHANGED <<mainVars, notDebounce>>

\* a timeout fires: fn(...args)
DebounceFire(t) ==
  /\ t \in dbTimers
  /\ Due(t)
  /\ dbTimers' = dbTimers \ {t}
  /\ dbFired' = dbFired + 1
  /\ dbEvent' = [kind |-> "fire", args |-> t.args]
  /\ UNCHANGED <<dbDelay, dbNow, timeoutId, dbLast>>
  /\ UNCHANGED <<mainVars, notDebounce>>

\* a millisecond passes
DebounceTick ==
  /\ dbNow < MaxTime
  /\ \A t \in dbTimers : ~Due(t)
  /\ dbNow' = dbNow + 1
  /\ dbEvent' = [kind |-> "tick", args |-> "none"]
  /\ UNCHANGED <<dbDelay, dbTimers, timeoutId, dbLast, dbFired>>
  /\ UNCHANGED <<mainVars, notDebounce>>

DebounceNext ==
  \/ \E args \in DbArgs : DebouncedCall(args)
  \/ \E t \in dbTimers : DebounceFire(t)
  \/ DebounceTick

DebounceSpec == DebounceInit /\ [][DebounceNext]_vars

\* C24: while each call follows the previous one by less than delay, fn is
\* not invoked; fn is invoked delay after the last call, once, with the
\* arguments of that call
C24_DebounceBurst ==
  /\ [][dbEvent'.kind = "fire"
          => /\ dbLast.any
             /\ dbNow = dbLast.time + dbDelay
             /\ dbEvent'.args = dbLast.args
             /\ dbFired = 0]_vars
  /\ [](dbLast.any
          => /\ dbNow < dbLast.time + dbDelay => dbFired = 0
             /\ dbNow > dbLast.time + dbDelay => dbFired = 1
             /\ dbFired <= 1)

\* the last call of a burst was made at time 2 with delay 2, and fn has
\* run once, at time 4, with the arguments of that call
C24_Witness ==
  /\ dbDelay = 2
  /\ dbLast = [any |-> TRUE, time |-> 2, args |-> "b"]
  /\ dbNow = 4
  /\ dbEvent = [kind |-> "fire", args |-> "b"]
  /\ dbFired = 1

\* ======================================= runs without a storage failure
\* the operations of the session life cycle: sign-in, verify-OTP, the
\* session query, sign-out
SyncKinds == {SignIn, VerifyOTP, GetSession, SignOut}

\* the steps of the session life cycle in which every storage call
\* resolves: the startup load, the secure-store writes and deletes, the
\* interceptor's delete
SyncNext ==
  \/ HydrateOk
  \/ handleAnimationComplete
  \/ SplashEffect
  \/ SplashReadSettle(TRUE)
  \/ completeOnboarding(TRUE)
  \/ UserNavigate
  \/ \E f \in FlowIds, k \in SyncKinds : Start(f, k)
  \/ \E f \in FlowIds, r \in Responses : RespondOk(f, r[1], r[2])
  \/ \E f \in FlowIds : WriteSettle(f, TRUE)
  \/ \E f \in FlowIds, raw \in RawErrors : RespondFail(f, raw, TRUE)
  \/ \E f \in FlowIds : DeleteSettle(f, TRUE)

SyncSpec == Init /\ [][SyncNext]_vars

\* the secure store and the session store hold the same token, and none
\* when logged out
TokensAgree ==
  IF isAuthenticated THEN secureToken = token
  ELSE secureToken = Null /\ token = Null

\* C25: once the startup load is over, in every state without an operation
\* in flight, reached without a storage failure, the secure-store token
\* equals the session store's token, both absent when logged out
C25_TokensInSync == (isHydrated /\ Quiescent) => TokensAgree

\* C26: on the login screen at most one sign-in request is in flight at
\* any time, for any sequence of Login presses and keyboard submits
C26_OneSignInInFlight == signInFlight <= 1

\* C27: at most one countdown interval is active at any time; once the
\* screen is unmounted no interval is active and no tick occurs, whatever
\* the order of ticks, resend answers and the unmount
C27_OneIntervalNoneAfterUnmount ==
  /\ [](intervals <= 1)
  /\ [](~Mounted => intervals = 0)
  /\ [][otpEvent' = "tick" => (Mounted /\ intervals = 1)]_vars

\* the screen was left while a resend was pending; the resend has been
\* answered since and no interval is active
C27_Witness ==
  /\ ~Mounted
  /\ otpEvent = "resendDropped"
  /\ intervals = 0 /\ ~timerRef

\* C30: a resend request is issued only when the countdown has reached 0
\* and no earlier resend request is without an answer
C30_ResendOnlyWhenReadyAndIdle ==
  [][otpEvent' = "resend"
       => (countdown = 0 /\ canResend /\ resendInFlight = 0)]_vars

\* C28: on a start over a stored authenticated session whose load does not
\* fail, the splash screen navigates to the tabs only: it never starts the
\* onboarding-flag read and never shows login or onboarding, whatever the
\* order of the animation's end and the load's end
C28_WarmStartGoesToTabs ==
  [][(route = "splash" /\ loadState # "error" /\ disk.isAuthenticated)
       => (route' \in {"splash", "tabs"} /\ ~splashRead')]_vars

\* the stored session was loaded after the animation had ended, and the
\* splash screen has replaced itself with the tabs
C28_Witness ==
  /\ route = "tabs" /\ hasNavigated /\ isAnimationComplete /\ ~splashRead
  /\ loadState = "ok" /\ isHydrated
  /\ isAuthenticated /\ user = "u1" /\ token = "t1"
  /\ Quiescent /\ settled = NoEvent /\ ~pendingChange

\* C29: isHydrated changes from false to true when the startup load
\* finishes and at no other step, and no step sets it back to false
C29_HydratedOnce ==
  /\ [][isHydrated => isHydrated']_vars
  /\ [][(~isHydrated /\ isHydrated')
          => (loadState = "loading" /\ loadState' \in {"ok", "error"})]_vars
  /\ [](isHydrated <=> loadState # "loading")

\* the load has finished, a sign-in has created a session since, and
\* isHydrated is still true
C29_Witness ==
  /\ isHydrated /\ loadState = "ok"
  /\ settled.kind = SignIn /\ settled.authed /\ isAuthenticated

====
